---- MODULE Spec2Model ----
(***************************************************************************)
(* LightGUIAgent: the step-decision loop of LightGUIAgent.run_task         *)
(* (src/lightguiagent/agent.py), the decision client's retry/validation    *)
(* (src/lightguiagent/claude_client.py), the conversions of the grid       *)
(* converter (src/lightguiagent/grid_converter.py), float arithmetic       *)
(* included, the grid chosen by the settings                               *)
(* (src/lightguiagent/settings.py) and the exit status of the command line *)
(* (src/main.py).                                                          *)
(*                                                                         *)
(* One run of run_task is a sequential program.  A blocking call to a      *)
(* collaborator (adb capture, oracle request, adb device action, sleep) is *)
(* a program position of its own: the state pc = "capturing" is the call   *)
(* in flight, and the actions that leave it are the ways the call returns  *)
(* or raises.  KeyboardInterrupt is raised by the Python runtime at        *)
(* whatever position the main thread is in, so it is an action enabled at  *)
(* every position inside the try block of run_task.                        *)
(***************************************************************************)
EXTENDS Integers, Sequences, FiniteSets, TLC

VARIABLES
    pc,               \* position in run_task
    max_steps,        \* run_task argument
    save_screenshots, \* run_task argument
    step_count,       \* self.step_count
    history,          \* self.history
    action,           \* local `action` of the current step
    annotated_image,  \* local `annotated_image`: the step whose capture it is
    marked_image_b64, \* local `marked_image_b64` of the current step
    llm_attempt,      \* `attempt` of the retry loop in get_action
    exec_attempt,     \* `attempt` of the retry loop in execute_action
    tokens,           \* claude.total_input_tokens / total_output_tokens
    log,              \* the events the TaskLogger has written
    outcome,          \* the way the run left the loop
    error,            \* the exception a failing call raised
    result,           \* the dict run_task returned
    request,          \* what the current step's get_action call was given
    captures,         \* capture_screenshot calls issued in the current step
    oracle_calls,     \* messages.create calls issued in the current step
    device_attempts,  \* execute_action attempts started in the current step
    executed,         \* the actions execute_action completed, in order
    interrupted_at,   \* the position a KeyboardInterrupt arrived at
    caller,           \* what the caller of run_task holds from an earlier call
    call              \* a function called on its own: name, arguments, outcome

vars == << pc, max_steps, save_screenshots, step_count, history, action,
           annotated_image, marked_image_b64, llm_attempt, exec_attempt,
           tokens, log, outcome, error, result, request, captures,
           oracle_calls, device_attempts, executed, interrupted_at, caller, call >>

(***************************************************************************)
(* Bounds and program constants                                           *)
(***************************************************************************)
\* largest max_steps a run is started with
MaxSteps == 3

\* largest sum of the max_steps of the two calls when run_task is called twice
MaxTotalSteps == 2

\* longest history a direct call of get_action is given
MaxHistory == 6

\* history[-5:]
history_window == 5

\* largest grid_cols, grid_rows, screen_width and screen_height of the grids
\* that are enumerated in full
MaxCols == 4
MaxRows == 2
MaxWidth == 8
MaxHeight == 4

\* get_action(..., max_retries: int = 3)
get_action_max_retries == 3

\* max_retries = 2 if retry_on_failure else 1
execute_max_retries == 2

ACTION_TYPES == {"CLICK", "TYPE", "SCROLL", "AWAKE", "COMPLETE"}

\* the default grid: 1080x2400 screen, round(1080/108) x round(2400/120) cells
screen_width == 1080
screen_height == 2400
grid_cols == 10
grid_rows == 20

(***************************************************************************)
(* Grid labels (grid_converter.py).  A label is a sequence of characters.  *)
(***************************************************************************)
\* chr(65 + i) for i = 0 .. 30
chr65 == << "A", "B", "C", "D", "E", "F", "G", "H", "I", "J", "K", "L", "M",
            "N", "O", "P", "Q", "R", "S", "T", "U", "V", "W", "X", "Y", "Z",
            "[", "\\", "]", "^", "_" >>

lower_letters == << "a", "b", "c", "d", "e", "f", "g", "h", "i", "j", "k", "l",
                    "m", "n", "o", "p", "q", "r", "s", "t", "u", "v", "w", "x",
                    "y", "z" >>

digits == << "0", "1", "2", "3", "4", "5", "6", "7", "8", "9" >>

whitespace == {" ", "\t", "\n"}

col_letters == SubSeq(chr65, 1, grid_cols)

IndexOf(seq, c) == CHOOSE i \in 1..Len(seq) : seq[i] = c

InSeq(seq, c) == \E i \in 1..Len(seq) : seq[i] = c

upper_char(c) == IF InSeq(lower_letters, c) THEN chr65[IndexOf(lower_letters, c)] ELSE c

upper(s) == [i \in 1..Len(s) |-> upper_char(s[i])]

RECURSIVE lstrip(_)
lstrip(s) == IF s # << >> /\ Head(s) \in whitespace THEN lstrip(Tail(s)) ELSE s

RECURSIVE rstrip(_)
rstrip(s) ==
    IF s # << >> /\ s[Len(s)] \in whitespace
    THEN rstrip(SubSeq(s, 1, Len(s) - 1)) ELSE s

strip(s) == rstrip(lstrip(s))

RECURSIVE digits_value(_)
digits_value(s) ==
    IF s = << >> THEN 0
    ELSE 10 * digits_value(SubSeq(s, 1, Len(s) - 1)) + (IndexOf(digits, s[Len(s)]) - 1)

all_digits(s) == s # << >> /\ \A i \in 1..Len(s) : InSeq(digits, s[i])

\* int(row_str): surrounding whitespace and one sign are accepted
int_ok(s) ==
    LET t == strip(s)
        u == IF t # << >> /\ Head(t) \in {"+", "-"} THEN Tail(t) ELSE t
    IN  all_digits(u)

int_value(s) ==
    LET t == strip(s)
        u == IF t # << >> /\ Head(t) \in {"+", "-"} THEN Tail(t) ELSE t
    IN  IF t # << >> /\ Head(t) = "-" THEN 0 - digits_value(u) ELSE digits_value(u)

\* the ValueError of _single_grid_to_pixel, or "ok"
grid_to_pixel_error(grid_str) ==
    LET s == strip(upper(strip(upper(grid_str))))
    IN  IF Len(s) < 2 THEN "InvalidLabel"
        ELSE IF ~InSeq(col_letters, s[1]) THEN "InvalidLabel"
        ELSE IF ~int_ok(Tail(s)) THEN "InvalidLabel"
        ELSE IF ~(1 <= int_value(Tail(s)) /\ int_value(Tail(s)) <= grid_rows)
             THEN "InvalidLabel"
        ELSE "ok"

\* int((col_index + 0.5) * cell_width), int((row - 0.5) * cell_height)
grid_to_pixel(grid_str) ==
    LET s == strip(upper(strip(upper(grid_str))))
        col_index == IndexOf(col_letters, s[1]) - 1
        row == int_value(Tail(s))
    IN  << ((2 * col_index + 1) * screen_width) \div (2 * grid_cols),
           ((2 * row - 1) * screen_height) \div (2 * grid_rows) >>

(***************************************************************************)
(* Oracle responses and their validation (claude_client.py)                *)
(***************************************************************************)
\* A response: whether its text is JSON, the keys of the parsed object and
\* the values of the keys the program reads.  A key that is absent has a
\* placeholder value that nothing reads.
Resp(json, keys, act, grid, value) ==
    [json |-> json, keys |-> keys, action |-> act, grid |-> grid,
     value |-> value, explain |-> "e"]

label_E5 == << "E", "5" >>
label_K1 == << "K", "1" >>

ValidResponses ==
    { Resp(TRUE, {"action", "grid", "explain"}, "CLICK", label_E5, ""),
      Resp(TRUE, {"action", "grid", "explain"}, "CLICK", label_K1, ""),
      Resp(TRUE, {"action", "value", "explain"}, "TYPE", << >>, "text"),
      Resp(TRUE, {"action", "value", "explain"}, "SCROLL", << >>, "down"),
      Resp(TRUE, {"action", "value", "explain"}, "AWAKE", << >>, "com.app"),
      Resp(TRUE, {"action", "explain"}, "COMPLETE", << >>, "") }

InvalidResponses ==
    { Resp(FALSE, {}, "", << >>, ""),
      Resp(TRUE, {"explain"}, "", << >>, ""),
      Resp(TRUE, {"action", "grid", "explain"}, "SWIPE", label_E5, ""),
      Resp(TRUE, {"action", "explain"}, "CLICK", << >>, ""),
      Resp(TRUE, {"action", "explain"}, "TYPE", << >>, ""),
      Resp(TRUE, {"action", "value", "explain"}, "SCROLL", << >>, "left") }

OracleResponses == ValidResponses \cup InvalidResponses

\* parse_response requiring `value` of TYPE and SCROLL only
parse_response_awake_without_value(r) ==
    IF ~r.json THEN "MalformedResponse"
    ELSE IF "action" \notin r.keys THEN "MissingAction"
    ELSE IF r.action \notin ACTION_TYPES THEN "UnknownActionType"
    ELSE IF r.action = "CLICK" /\ "grid" \notin r.keys THEN "MissingField"
    ELSE IF r.action \in {"TYPE", "SCROLL"} /\ "value" \notin r.keys
         THEN "MissingField"
    ELSE IF r.action = "SCROLL" /\ r.value \notin {"up", "down"}
         THEN "InvalidScrollDirection"
    ELSE "ok"

\* parse_response without the test of the action type
parse_response_any_type(r) ==
    IF ~r.json THEN "MalformedResponse"
    ELSE IF "action" \notin r.keys THEN "MissingAction"
    ELSE IF r.action = "CLICK" /\ "grid" \notin r.keys THEN "MissingField"
    ELSE IF r.action \in {"TYPE", "SCROLL", "AWAKE"} /\ "value" \notin r.keys
         THEN "MissingField"
    ELSE IF r.action = "SCROLL" /\ r.value \notin {"up", "down"}
         THEN "InvalidScrollDirection"
    ELSE "ok"

\* parse_response without the check of the SCROLL direction
parse_response_any_scroll(r) ==
    IF ~r.json THEN "MalformedResponse"
    ELSE IF "action" \notin r.keys THEN "MissingAction"
    ELSE IF r.action \notin ACTION_TYPES THEN "UnknownActionType"
    ELSE IF r.action = "CLICK" /\ "grid" \notin r.keys THEN "MissingField"
    ELSE IF r.action \in {"TYPE", "SCROLL", "AWAKE"} /\ "value" \notin r.keys
         THEN "MissingField"
    ELSE "ok"

\* the ValueError _parse_response raises for a response, or "ok"
parse_response(r) ==
    IF ~r.json THEN "MalformedResponse"
    ELSE IF "action" \notin r.keys THEN "MissingAction"
    ELSE IF r.action \notin ACTION_TYPES THEN "UnknownActionType"
    ELSE IF r.action = "CLICK" /\ "grid" \notin r.keys THEN "MissingField"
    ELSE IF r.action \in {"TYPE", "SCROLL", "AWAKE"} /\ "value" \notin r.keys
         THEN "MissingField"
    ELSE IF r.action = "SCROLL" /\ r.value \notin {"up", "down"}
         THEN "InvalidScrollDirection"
    ELSE "ok"

\* the dict _parse_response returns
ActionOf(r) ==
    [keys |-> r.keys, action |-> r.action, grid |-> r.grid, value |-> r.value,
     explain |-> r.explain]

NoAction == [keys |-> {}, action |-> "NONE", grid |-> << >>, value |-> "", explain |-> ""]

(***************************************************************************)
(* Images, history entries, errors, log events, results                    *)
(***************************************************************************)
\* a marked image: the capture it was drawn on and the action drawn on it
NoImage == [shot |-> 0, act |-> "NONE"]

Image(shot, act) == [shot |-> shot, act |-> act]

\* history_entry = action.copy(), plus marked_screenshot_b64 when truthy
HistoryEntry(a, img) ==
    [keys |-> IF img # NoImage THEN a.keys \cup {"marked_screenshot_b64"} ELSE a.keys,
     action |-> a.action, grid |-> a.grid, value |-> a.value,
     explain |-> a.explain, marked_screenshot_b64 |-> img]

\* the action part of a history entry
EntryAction(h) ==
    [keys |-> h.keys \ {"marked_screenshot_b64"}, action |-> h.action,
     grid |-> h.grid, value |-> h.value, explain |-> h.explain]

NoError == [stage |-> "none", kind |-> "none"]

Err(stage, kind) == [stage |-> stage, kind |-> kind]

\* TaskLogger.log_event: one line of the JSONL file
Event(event_type, step, ok, detail) ==
    [event_type |-> event_type, step |-> step, ok |-> ok, detail |-> detail]

NoResult ==
    [returned |-> FALSE, success |-> FALSE, steps |-> 0, cost |-> 0, history |-> << >>]

\* success_of without the test of the last action
success_of_nonempty(h) == Len(h) > 0

\* success = len(self.history) > 0 and self.history[-1]["action"] == "COMPLETE"
success_of(h) == Len(h) > 0 /\ h[Len(h)].action = "COMPLETE"

\* previous_marked looking back for the latest entry that has a marked image
previous_marked_most_recent(h) ==
    LET marked == {i \in 1..Len(h) : "marked_screenshot_b64" \in h[i].keys}
    IN  IF marked = {} THEN NoImage
        ELSE h[CHOOSE i \in marked : \A j \in marked : j <= i].marked_screenshot_b64

\* the previous step's marked screenshot get_action puts into the request
previous_marked(h) ==
    IF Len(h) > 0 /\ "marked_screenshot_b64" \in h[Len(h)].keys
    THEN h[Len(h)].marked_screenshot_b64
    ELSE NoImage

(***************************************************************************)
(* ClaudeClient._build_user_message: the text of the request               *)
(***************************************************************************)
\* action.get(key, default) on a history entry
get(entry, key, default) == IF key \in entry.keys THEN entry[key] ELSE default

\* first_entries: history[:5], the oldest entries
first_entries(h) == SubSeq(h, 1, IF Len(h) > history_window THEN history_window ELSE Len(h))

\* history[-5:]
last_entries(h) ==
    SubSeq(h, IF Len(h) > history_window THEN Len(h) - history_window + 1 ELSE 1, Len(h))

\* f"{i}. CLICK {grid} - {explain}\n" and its siblings: the number, the action
\* type, the grid or value printed after it (none for other types), the explain
action_line(i, entry) ==
    LET action_type == get(entry, "action", "UNKNOWN")
    IN  [n |-> i,
         kind |-> action_type,
         grid |-> IF action_type = "CLICK" THEN get(entry, "grid", << >>) ELSE << >>,
         value |-> IF action_type \in {"TYPE", "SCROLL", "AWAKE"}
                   THEN get(entry, "value", "") ELSE "",
         explain |-> get(entry, "explain", "")]

\* for i, action in enumerate(history[-5:], 1)
previous_actions(h) ==
    LET shown == last_entries(h)
    IN  [i \in 1..Len(shown) |-> action_line(i, shown[i])]

\* click_warning without the comparison of the grid labels
click_warning_any_click(h) ==
    /\ Len(h) >= 2
    /\ \A i \in (Len(h) - 1)..Len(h) : get(h[i], "action", "") = "CLICK"

\* last 2 actions are CLICK, len(set(recent_grids)) == 1 and recent_grids[0]
click_warning(h) ==
    /\ Len(h) >= 2
    /\ \A i \in (Len(h) - 1)..Len(h) : get(h[i], "action", "") = "CLICK"
    /\ Cardinality({get(h[i], "grid", << >>) : i \in (Len(h) - 1)..Len(h)}) = 1
    /\ get(h[Len(h) - 1], "grid", << >>) # << >>

\* stuck_warning over the last 2 entries
stuck_warning_last_two(h) ==
    /\ Len(h) >= 2
    /\ Cardinality({get(h[i], "explain", "") : i \in (Len(h) - 1)..Len(h)}) = 1

\* len(history) >= 2, len(history) >= 3 and len(set(recent_explains)) == 1
stuck_warning(h) ==
    /\ Len(h) >= 2
    /\ Len(h) >= 3
    /\ Cardinality({get(h[i], "explain", "") : i \in (Len(h) - 2)..Len(h)}) = 1

\* the parts of the message that depend on the history
build_user_message(h) ==
    [previous_actions |-> previous_actions(h),
     click_warning |-> click_warning(h),
     stuck_warning |-> stuck_warning(h)]

\* what one get_action call is given and sends
Request(h, img) ==
    [history |-> h, grid_image |-> img, previous |-> previous_marked(h),
     message |-> build_user_message(h)]

NoRequest ==
    [history |-> << >>, grid_image |-> 0, previous |-> NoImage,
     message |-> [previous_actions |-> << >>, click_warning |-> FALSE,
                  stuck_warning |-> FALSE]]

\* The caller's view of an earlier call of run_task: which call is the current
\* one, how the earlier one ended, the list object its result holds under
\* "history" (its contents), and whether self.history is that same object.
NoEarlierRun == [run |-> 1, ended |-> "none", history |-> << >>, is_self |-> FALSE]

(***************************************************************************)
(* Positions                                                               *)
(***************************************************************************)
\* positions inside the try block of run_task
TryPcs ==
    {"loop_head", "capturing", "annotating", "get_action", "deciding",
     "llm_backoff", "executing", "exec_backoff", "marking", "recording",
     "check_complete", "delay", "loop_else"}

\* a blocking call to a collaborator is in flight
InFlightPcs == {"capturing", "deciding", "executing"}

\* between two steps, and between two iterations of a retry loop
BoundaryPcs == {"loop_head", "delay", "llm_backoff", "exec_backoff"}

AllPcs == TryPcs \cup {"idle", "finally", "returned", "propagated", "exited"}

(***************************************************************************)
(* LightGUIAgent.__init__                                                  *)
(***************************************************************************)
\* no function has been called on its own
NoCall == [fn |-> "none", args |-> << >>, ret |-> << >>]

Init ==
    /\ pc = "idle"
    /\ max_steps = 1
    /\ save_screenshots = TRUE
    /\ step_count = 0
    /\ history = << >>
    /\ action = NoAction
    /\ annotated_image = 0
    /\ marked_image_b64 = NoImage
    /\ llm_attempt = 0
    /\ exec_attempt = 0
    /\ tokens = 0
    /\ log = << >>
    /\ outcome = "none"
    /\ error = NoError
    /\ result = NoResult
    /\ request = NoRequest
    /\ captures = 0
    /\ oracle_calls = 0
    /\ device_attempts = 0
    /\ executed = << >>
    /\ interrupted_at = "none"
    /\ caller = NoEarlierRun
    /\ call = NoCall

(***************************************************************************)
(* The exception handlers of run_task.  `lg` is the log as the failing     *)
(* statement left it.                                                      *)
(***************************************************************************)
\* except_Exception ending in a bare `raise`: the failure leaves run_task
except_Exception_reraise(e, lg) ==
    /\ error' = e
    /\ outcome' = "Error"
    /\ log' = Append(lg, Event("task_error", 0, FALSE, e.kind))
    /\ pc' = "propagated"

\* except Exception as e: log task_error, fall into the finally block
except_Exception(e, lg) ==
    /\ error' = e
    /\ outcome' = "Error"
    /\ log' = Append(lg, Event("task_error", 0, FALSE, e.kind))
    /\ pc' = "finally"

\* except_KeyboardInterrupt ending in a bare `raise`: no result is returned
except_KeyboardInterrupt_reraise ==
    /\ outcome' = "UserInterrupt"
    /\ log' = Append(log, Event("task_interrupted", 0, FALSE, "user_interrupt"))
    /\ pc' = "propagated"

\* except KeyboardInterrupt: log task_interrupted, fall into the finally block
except_KeyboardInterrupt ==
    /\ outcome' = "UserInterrupt"
    /\ log' = Append(log, Event("task_interrupted", 0, FALSE, "user_interrupt"))
    /\ pc' = "finally"

(***************************************************************************)
(* run_task: entry, and the head of the for loop                           *)
(***************************************************************************)
\* run_task up to the try statement: arguments, reset of the state, task_start
run_task_start ==
    /\ pc = "idle"
    /\ \E m \in 1..MaxSteps, s \in BOOLEAN :
          /\ max_steps' = m
          /\ save_screenshots' = s
    /\ history' = << >>
    /\ step_count' = 0
    /\ log' = << Event("task_start", 0, TRUE, "") >>
    /\ outcome' = "running"
    /\ pc' = "loop_head"
    /\ UNCHANGED << action, annotated_image, marked_image_b64, llm_attempt,
                    exec_attempt, tokens, error, result, request, captures,
                    oracle_calls, device_attempts, executed, interrupted_at, caller, call >>

\* loop_next with the range one too long: range(1, max_steps + 2)
loop_next_one_more ==
    /\ pc = "loop_head"
    /\ step_count < max_steps + 1
    /\ step_count' = step_count + 1
    /\ log' = Append(log, Event("step_start", step_count + 1, TRUE, ""))
    /\ captures' = 1
    /\ oracle_calls' = 0
    /\ device_attempts' = 0
    /\ pc' = "capturing"
    /\ UNCHANGED << max_steps, save_screenshots, history, action, annotated_image,
                    marked_image_b64, llm_attempt, exec_attempt, tokens, outcome,
                    error, result, request, executed, interrupted_at,
                    caller, call >>

\* for step in range(1, max_steps + 1): the next step starts with its capture
loop_next ==
    /\ pc = "loop_head"
    /\ step_count < max_steps
    /\ step_count' = step_count + 1
    /\ log' = Append(log, Event("step_start", step_count + 1, TRUE, ""))
    /\ captures' = 1
    /\ oracle_calls' = 0
    /\ device_attempts' = 0
    /\ pc' = "capturing"
    /\ UNCHANGED << max_steps, save_screenshots, history, action, annotated_image,
                    marked_image_b64, llm_attempt, exec_attempt, tokens, outcome,
                    error, result, request, executed, interrupted_at,
                    caller, call >>

\* the range is exhausted: the else clause of the for loop
loop_exhausted ==
    /\ pc = "loop_head"
    /\ step_count >= max_steps
    /\ pc' = "loop_else"
    /\ UNCHANGED << max_steps, save_screenshots, step_count, history, action,
                    annotated_image, marked_image_b64, llm_attempt, exec_attempt,
                    tokens, log, outcome, error, result, request, captures,
                    oracle_calls, device_attempts, executed, interrupted_at,
                    caller, call >>

\* else: "Reached maximum steps without completion"
loop_else ==
    /\ pc = "loop_else"
    /\ outcome' = "MaxStepsReached"
    /\ pc' = "finally"
    /\ UNCHANGED << max_steps, save_screenshots, step_count, history, action,
                    annotated_image, marked_image_b64, llm_attempt, exec_attempt,
                    tokens, log, error, result, request, captures,
                    oracle_calls, device_attempts, executed, interrupted_at,
                    caller, call >>

(***************************************************************************)
(* 1. capture_screenshot, 2. process_screenshot                            *)
(***************************************************************************)
\* the pulled file exists
capture_screenshot_ok ==
    /\ pc = "capturing"
    /\ pc' = "annotating"
    /\ UNCHANGED << max_steps, save_screenshots, step_count, history, action,
                    annotated_image, marked_image_b64, llm_attempt, exec_attempt,
                    tokens, log, outcome, error, result, request, captures,
                    oracle_calls, device_attempts, executed, interrupted_at,
                    caller, call >>

\* capture_screenshot_raise with one more capture tried before giving up
capture_screenshot_raise_retried ==
    /\ pc = "capturing"
    /\ IF captures < 2
       THEN /\ captures' = captures + 1
            /\ pc' = "capturing"
            /\ UNCHANGED << error, outcome, log >>
       ELSE /\ captures' = captures
            /\ except_Exception(Err("capture", "CaptureFailed"), log)
    /\ UNCHANGED << max_steps, save_screenshots, step_count, history, action,
                    annotated_image, marked_image_b64, llm_attempt, exec_attempt,
                    tokens, result, request, oracle_calls, device_attempts,
                    executed, interrupted_at,
                    caller, call >>

\* an adb command times out, or the pulled file does not exist
capture_screenshot_raise ==
    /\ pc = "capturing"
    /\ except_Exception(Err("capture", "CaptureFailed"), log)
    /\ UNCHANGED << max_steps, save_screenshots, step_count, history, action,
                    annotated_image, marked_image_b64, llm_attempt, exec_attempt,
                    tokens, result, request, captures, oracle_calls,
                    device_attempts, executed, interrupted_at,
                    caller, call >>

\* grid overlay of the capture, screenshot event, cleanup of the capture
process_screenshot ==
    /\ pc = "annotating"
    /\ annotated_image' = step_count
    /\ log' = Append(log, Event("screenshot", step_count, TRUE, ""))
    /\ pc' = "get_action"
    /\ UNCHANGED << max_steps, save_screenshots, step_count, history, action,
                    marked_image_b64, llm_attempt, exec_attempt, tokens, outcome,
                    error, result, request, captures, oracle_calls,
                    device_attempts, executed, interrupted_at,
                    caller, call >>

\* opening, drawing on or saving the capture raises
process_screenshot_raise ==
    /\ pc = "annotating"
    /\ except_Exception(Err("annotate", "AnnotateFailed"), log)
    /\ UNCHANGED << max_steps, save_screenshots, step_count, history, action,
                    annotated_image, marked_image_b64, llm_attempt, exec_attempt,
                    tokens, result, request, captures, oracle_calls,
                    device_attempts, executed, interrupted_at,
                    caller, call >>

(***************************************************************************)
(* 3. ClaudeClient.get_action                                              *)
(***************************************************************************)
\* the request is built from self.history and the first API call is issued
get_action_call ==
    /\ pc = "get_action"
    /\ request' = Request(history, annotated_image)
    /\ llm_attempt' = 0
    /\ oracle_calls' = 1
    /\ pc' = "deciding"
    /\ UNCHANGED << max_steps, save_screenshots, step_count, history, action,
                    annotated_image, marked_image_b64, exec_attempt, tokens, log,
                    outcome, error, result, captures, device_attempts, executed,
                    interrupted_at,
                    caller, call >>

\* get_action_except with `attempt < max_retries`: one attempt too many
get_action_except_one_more(e) ==
    IF llm_attempt < get_action_max_retries
    THEN /\ error' = e
         /\ pc' = "llm_backoff"
         /\ UNCHANGED << outcome, log >>
    ELSE except_Exception(e, log)

\* except Exception as e, in the retry loop of get_action: sleep and go
\* round again while attempts are left, else raise "API call failed ...: e"
get_action_except(e) ==
    IF llm_attempt < get_action_max_retries - 1
    THEN /\ error' = e
         /\ pc' = "llm_backoff"
         /\ UNCHANGED << outcome, log >>
    ELSE except_Exception(e, log)

\* the response passes _parse_response: it is the step's action.  The
\* llm_response event is written and execute_action is entered.
get_action_returns(r) ==
    /\ pc = "deciding"
    /\ parse_response(r) = "ok"
    /\ tokens' = tokens + 1
    /\ action' = ActionOf(r)
    /\ log' = Append(log, Event("llm_response", step_count, TRUE, r.action))
    /\ exec_attempt' = 0
    /\ device_attempts' = 1
    /\ pc' = "executing"
    /\ UNCHANGED << max_steps, save_screenshots, step_count, history,
                    annotated_image, marked_image_b64, llm_attempt, outcome,
                    error, result, request, captures, oracle_calls, executed,
                    interrupted_at,
                    caller, call >>

\* the response arrives (its usage is counted) and _parse_response raises
get_action_rejects(r) ==
    /\ pc = "deciding"
    /\ parse_response(r) # "ok"
    /\ tokens' = tokens + 1
    /\ get_action_except(Err("decide", parse_response(r)))
    /\ UNCHANGED << max_steps, save_screenshots, step_count, history, action,
                    annotated_image, marked_image_b64, llm_attempt, exec_attempt,
                    result, request, captures, oracle_calls, device_attempts,
                    executed, interrupted_at,
                    caller, call >>

\* messages.create raises (transport error): no usage is counted
get_action_api_error ==
    /\ pc = "deciding"
    /\ get_action_except(Err("decide", "ApiError"))
    /\ UNCHANGED << max_steps, save_screenshots, step_count, history, action,
                    annotated_image, marked_image_b64, llm_attempt, exec_attempt,
                    tokens, result, request, captures, oracle_calls,
                    device_attempts, executed, interrupted_at,
                    caller, call >>

\* time.sleep(1) is over: the next iteration issues the next API call
get_action_retry ==
    /\ pc = "llm_backoff"
    /\ llm_attempt' = llm_attempt + 1
    /\ oracle_calls' = oracle_calls + 1
    /\ error' = NoError
    /\ pc' = "deciding"
    /\ UNCHANGED << max_steps, save_screenshots, step_count, history, action,
                    annotated_image, marked_image_b64, exec_attempt, tokens, log,
                    outcome, result, request, captures, device_attempts,
                    executed, interrupted_at,
                    caller, call >>

(***************************************************************************)
(* 4. execute_action, and the marked image of the executed action          *)
(***************************************************************************)
\* the attempt reaches `break`: the action_execution event is written
execute_action_ok ==
    /\ pc = "executing"
    /\ action.action = "CLICK" => grid_to_pixel_error(action.grid) = "ok"
    /\ executed' = Append(executed, action)
    /\ log' = Append(log, Event("action_execution", step_count, TRUE, action.action))
    /\ pc' = "marking"
    /\ UNCHANGED << max_steps, save_screenshots, step_count, history, action,
                    annotated_image, marked_image_b64, llm_attempt, exec_attempt,
                    tokens, outcome, error, result, request, captures,
                    oracle_calls, device_attempts, interrupted_at,
                    caller, call >>

\* execute_action_except with `attempt < max_retries`: one attempt too many
execute_action_except_one_more(e) ==
    IF exec_attempt < execute_max_retries
    THEN /\ error' = e
         /\ pc' = "exec_backoff"
         /\ UNCHANGED << outcome, log >>
    ELSE except_Exception(e, Append(log, Event("error", step_count, FALSE, e.kind)))

\* except Exception as e, in the retry loop of execute_action: sleep and go
\* round again while attempts are left, else re-raise; run_task then writes
\* the error event of the step and re-raises
execute_action_except(e) ==
    IF exec_attempt < execute_max_retries - 1
    THEN /\ error' = e
         /\ pc' = "exec_backoff"
         /\ UNCHANGED << outcome, log >>
    ELSE except_Exception(e, Append(log, Event("error", step_count, FALSE, e.kind)))

\* the attempt raises: grid_to_pixel rejects the label of a CLICK, or an
\* adb command of a CLICK, TYPE, SCROLL or AWAKE times out
execute_action_raise ==
    /\ pc = "executing"
    /\ action.action # "COMPLETE"
    /\ IF action.action = "CLICK" /\ grid_to_pixel_error(action.grid) # "ok"
       THEN execute_action_except(Err("execute", grid_to_pixel_error(action.grid)))
       ELSE execute_action_except(Err("execute", "DeviceError"))
    /\ UNCHANGED << max_steps, save_screenshots, step_count, history, action,
                    annotated_image, marked_image_b64, llm_attempt, exec_attempt,
                    tokens, result, request, captures, oracle_calls,
                    device_attempts, executed, interrupted_at,
                    caller, call >>

\* time.sleep(1) is over: the next iteration starts the next attempt
execute_action_retry ==
    /\ pc = "exec_backoff"
    /\ exec_attempt' = exec_attempt + 1
    /\ device_attempts' = device_attempts + 1
    /\ error' = NoError
    /\ pc' = "executing"
    /\ UNCHANGED << max_steps, save_screenshots, step_count, history, action,
                    annotated_image, marked_image_b64, llm_attempt, tokens, log,
                    outcome, result, request, captures, oracle_calls, executed,
                    interrupted_at,
                    caller, call >>

\* save_screenshots and annotated_image and action in [CLICK, TYPE, AWAKE]
needs_mark ==
    /\ save_screenshots
    /\ annotated_image # 0
    /\ action.action \in {"CLICK", "TYPE", "AWAKE"}

\* mark_action without `marked_image_b64 = None`: the value of the step before
\* is kept when the action is not marked
mark_action_not_reset ==
    /\ pc = "marking"
    /\ marked_image_b64' =
          IF needs_mark THEN Image(annotated_image, action.action) ELSE marked_image_b64
    /\ pc' = "recording"
    /\ UNCHANGED << max_steps, save_screenshots, step_count, history, action,
                    annotated_image, llm_attempt, exec_attempt, tokens, log,
                    outcome, error, result, request, captures, oracle_calls,
                    device_attempts, executed, interrupted_at, caller, call >>

\* marked_image_b64 = None, then mark_action, save_image, compress_and_encode
mark_action ==
    /\ pc = "marking"
    /\ marked_image_b64' =
          IF needs_mark THEN Image(annotated_image, action.action) ELSE NoImage
    /\ pc' = "recording"
    /\ UNCHANGED << max_steps, save_screenshots, step_count, history, action,
                    annotated_image, llm_attempt, exec_attempt, tokens, log,
                    outcome, error, result, request, captures, oracle_calls,
                    device_attempts, executed, interrupted_at,
                    caller, call >>

\* drawing, saving or encoding the marked image raises: run_task writes the
\* error event of the step and re-raises
mark_action_raise ==
    /\ pc = "marking"
    /\ needs_mark
    /\ marked_image_b64' = NoImage
    /\ except_Exception(Err("mark", "MarkFailed"),
                        Append(log, Event("error", step_count, FALSE, "MarkFailed")))
    /\ UNCHANGED << max_steps, save_screenshots, step_count, history, action,
                    annotated_image, llm_attempt, exec_attempt, tokens, result,
                    request, captures, oracle_calls, device_attempts, executed,
                    interrupted_at,
                    caller, call >>

(***************************************************************************)
(* 5.-9. step_complete, history, completion check, delay                   *)
(***************************************************************************)
\* record_step with self.history.insert(0, history_entry)
record_step_prepended ==
    /\ pc = "recording"
    /\ log' = Append(log, Event("step_complete", step_count, TRUE, ""))
    /\ history' = << HistoryEntry(action, marked_image_b64) >> \o history
    /\ call' = call
    /\ caller' = caller
    /\ pc' = "check_complete"
    /\ UNCHANGED << max_steps, save_screenshots, step_count, action,
                    annotated_image, marked_image_b64, llm_attempt, exec_attempt,
                    tokens, outcome, error, result, request, captures,
                    oracle_calls, device_attempts, executed, interrupted_at >>

\* record_step without self.history.append(history_entry)
record_step_not_appended ==
    /\ pc = "recording"
    /\ log' = Append(log, Event("step_complete", step_count, TRUE, ""))
    /\ pc' = "check_complete"
    /\ UNCHANGED << max_steps, save_screenshots, step_count, history, action,
                    annotated_image, marked_image_b64, llm_attempt, exec_attempt,
                    tokens, outcome, error, result, request, captures,
                    oracle_calls, device_attempts, executed, interrupted_at,
                    caller, call >>

\* step_complete event, then self.history.append(history_entry)
record_step ==
    /\ pc = "recording"
    /\ log' = Append(log, Event("step_complete", step_count, TRUE, ""))
    /\ history' = Append(history, HistoryEntry(action, marked_image_b64))
    /\ call' = call
    /\ caller' = IF caller.is_self
                 THEN [caller EXCEPT !.history =
                          Append(@, HistoryEntry(action, marked_image_b64))]
                 ELSE caller
    /\ pc' = "check_complete"
    /\ UNCHANGED << max_steps, save_screenshots, step_count, action,
                    annotated_image, marked_image_b64, llm_attempt, exec_attempt,
                    tokens, outcome, error, result, request, captures,
                    oracle_calls, device_attempts, executed, interrupted_at >>

\* check_complete without the break: the loop goes on after COMPLETE
check_complete_no_break ==
    /\ pc = "check_complete"
    /\ pc' = "delay"
    /\ UNCHANGED << max_steps, save_screenshots, step_count, history, action,
                    annotated_image, marked_image_b64, llm_attempt, exec_attempt,
                    tokens, log, outcome, error, result, request, captures,
                    oracle_calls, device_attempts, executed, interrupted_at,
                    caller, call >>

\* if action["action"] == "COMPLETE": break
check_complete ==
    /\ pc = "check_complete"
    /\ IF action.action = "COMPLETE"
       THEN /\ outcome' = "Done"
            /\ pc' = "finally"
       ELSE /\ outcome' = outcome
            /\ pc' = "delay"
    /\ UNCHANGED << max_steps, save_screenshots, step_count, history, action,
                    annotated_image, marked_image_b64, llm_attempt, exec_attempt,
                    tokens, log, error, result, request, captures, oracle_calls,
                    device_attempts, executed, interrupted_at,
                    caller, call >>

\* time.sleep(delay) is over
delay_after_action ==
    /\ pc = "delay"
    /\ pc' = "loop_head"
    /\ UNCHANGED << max_steps, save_screenshots, step_count, history, action,
                    annotated_image, marked_image_b64, llm_attempt, exec_attempt,
                    tokens, log, outcome, error, result, request, captures,
                    oracle_calls, device_attempts, executed, interrupted_at,
                    caller, call >>

(***************************************************************************)
(* KeyboardInterrupt, the finally block and the return                     *)
(***************************************************************************)
\* KeyboardInterrupt held back until the next step or retry boundary
KeyboardInterrupt_deferred ==
    /\ pc \in BoundaryPcs
    /\ interrupted_at' = pc
    /\ except_KeyboardInterrupt
    /\ UNCHANGED << max_steps, save_screenshots, step_count, history, action,
                    annotated_image, marked_image_b64, llm_attempt, exec_attempt,
                    tokens, error, result, request, captures, oracle_calls,
                    device_attempts, executed,
                    caller, call >>

\* Ctrl-C while the main thread is inside the try block.  No `except
\* Exception` clause of the retry loops catches it.
KeyboardInterrupt ==
    /\ pc \in TryPcs
    /\ interrupted_at' = pc
    /\ except_KeyboardInterrupt
    /\ UNCHANGED << max_steps, save_screenshots, step_count, history, action,
                    annotated_image, marked_image_b64, llm_attempt, exec_attempt,
                    tokens, error, result, request, captures, oracle_calls,
                    device_attempts, executed,
                    caller, call >>

\* finally: task_complete event; then the result dict is returned
finally_return ==
    /\ pc = "finally"
    /\ log' = Append(log, Event("task_complete", step_count, success_of(history), ""))
    /\ result' = [returned |-> TRUE, success |-> success_of(history),
                  steps |-> step_count, cost |-> tokens, history |-> history]
    /\ pc' = "returned"
    /\ UNCHANGED << max_steps, save_screenshots, step_count, history, action,
                    annotated_image, marked_image_b64, llm_attempt, exec_attempt,
                    tokens, outcome, error, request, captures, oracle_calls,
                    device_attempts, executed, interrupted_at,
                    caller, call >>

Next ==
    \/ run_task_start
    \/ loop_next
    \/ loop_exhausted
    \/ loop_else
    \/ capture_screenshot_ok
    \/ capture_screenshot_raise
    \/ process_screenshot
    \/ process_screenshot_raise
    \/ get_action_call
    \/ \E r \in OracleResponses : get_action_returns(r)
    \/ \E r \in OracleResponses : get_action_rejects(r)
    \/ get_action_api_error
    \/ get_action_retry
    \/ execute_action_ok
    \/ execute_action_raise
    \/ execute_action_retry
    \/ mark_action
    \/ mark_action_raise
    \/ record_step
    \/ check_complete
    \/ delay_after_action
    \/ KeyboardInterrupt
    \/ finally_return

Spec == Init /\ [][Next]_vars

(***************************************************************************)
(* A second call of run_task on the same agent                             *)
(***************************************************************************)
\* run_task_again with self.history.clear() in place of self.history = []
run_task_again_cleared ==
    /\ pc = "returned"
    /\ caller.run = 1
    /\ max_steps < MaxTotalSteps
    /\ \E m \in 1..(MaxTotalSteps - max_steps) : max_steps' = m
    /\ save_screenshots' = save_screenshots
    /\ call' = call
    /\ caller' = [run |-> 2, ended |-> outcome, history |-> << >>, is_self |-> TRUE]
    /\ history' = << >>
    /\ step_count' = 0
    /\ log' = << Event("task_start", 0, TRUE, "") >>
    /\ outcome' = "running"
    /\ pc' = "loop_head"
    /\ action' = NoAction
    /\ annotated_image' = 0
    /\ marked_image_b64' = NoImage
    /\ llm_attempt' = 0
    /\ exec_attempt' = 0
    /\ error' = NoError
    /\ result' = NoResult
    /\ request' = NoRequest
    /\ captures' = 0
    /\ oracle_calls' = 0
    /\ device_attempts' = 0
    /\ executed' = << >>
    /\ interrupted_at' = "none"
    /\ UNCHANGED tokens

\* run_task_again without the reset of self.history and self.step_count
run_task_again_no_reset ==
    /\ pc = "returned"
    /\ caller.run = 1
    /\ max_steps < MaxTotalSteps
    /\ \E m \in 1..(MaxTotalSteps - max_steps) : max_steps' = m
    /\ save_screenshots' = save_screenshots
    /\ call' = call
    /\ caller' = [run |-> 2, ended |-> outcome, history |-> result.history,
                  is_self |-> TRUE]
    /\ log' = << Event("task_start", 0, TRUE, "") >>
    /\ outcome' = "running"
    /\ pc' = "loop_head"
    /\ action' = NoAction
    /\ annotated_image' = 0
    /\ marked_image_b64' = NoImage
    /\ llm_attempt' = 0
    /\ exec_attempt' = 0
    /\ error' = NoError
    /\ result' = NoResult
    /\ request' = NoRequest
    /\ captures' = 0
    /\ oracle_calls' = 0
    /\ device_attempts' = 0
    /\ executed' = << >>
    /\ interrupted_at' = "none"
    /\ UNCHANGED << tokens, history, step_count >>

\* The caller keeps the dict the first call returned and calls run_task on the
\* same agent again, with the same save_screenshots: a new TaskLogger,
\* self.history = [] (a new list object, the returned one is left alone),
\* self.step_count = 0, task_start.  The token counters of the client are
\* not reset.
run_task_again ==
    /\ pc = "returned"
    /\ caller.run = 1
    /\ max_steps < MaxTotalSteps
    /\ \E m \in 1..(MaxTotalSteps - max_steps) : max_steps' = m
    /\ save_screenshots' = save_screenshots
    /\ call' = call
    /\ caller' = [run |-> 2, ended |-> outcome, history |-> result.history,
                  is_self |-> FALSE]
    /\ history' = << >>
    /\ step_count' = 0
    /\ log' = << Event("task_start", 0, TRUE, "") >>
    /\ outcome' = "running"
    /\ pc' = "loop_head"
    /\ action' = NoAction
    /\ annotated_image' = 0
    /\ marked_image_b64' = NoImage
    /\ llm_attempt' = 0
    /\ exec_attempt' = 0
    /\ error' = NoError
    /\ result' = NoResult
    /\ request' = NoRequest
    /\ captures' = 0
    /\ oracle_calls' = 0
    /\ device_attempts' = 0
    /\ executed' = << >>
    /\ interrupted_at' = "none"
    /\ UNCHANGED tokens

NextTwoRuns == Next \/ run_task_again

(***************************************************************************)
(* ClaudeClient.get_action called with a given history                     *)
(***************************************************************************)
label_e5 == << "e", "5" >>

\* entries run_task can have appended with save_screenshots off: executed
\* actions, an explain on all but one
MessageEntries ==
    { HistoryEntry([keys |-> {"action", "grid", "explain"}, action |-> "CLICK",
                    grid |-> label_E5, value |-> "", explain |-> "e"], NoImage),
      HistoryEntry([keys |-> {"action", "grid", "explain"}, action |-> "CLICK",
                    grid |-> label_E5, value |-> "", explain |-> "f"], NoImage),
      HistoryEntry([keys |-> {"action", "grid", "explain"}, action |-> "CLICK",
                    grid |-> label_e5, value |-> "", explain |-> "e"], NoImage),
      HistoryEntry([keys |-> {"action", "value", "explain"}, action |-> "SCROLL",
                    grid |-> << >>, value |-> "down", explain |-> "e"], NoImage),
      HistoryEntry([keys |-> {"action", "value"}, action |-> "TYPE",
                    grid |-> << >>, value |-> "text", explain |-> ""], NoImage) }

Histories == UNION {[1..n -> MessageEntries] : n \in 0..MaxHistory}

\* get_action(task, grid_image_b64, history) up to the request it sends
build_request ==
    /\ pc = "idle"
    /\ request = NoRequest
    /\ \E h \in Histories : request' = Request(h, 1)
    /\ UNCHANGED << pc, max_steps, save_screenshots, step_count, history, action,
                    annotated_image, marked_image_b64, llm_attempt, exec_attempt,
                    tokens, log, outcome, error, result, captures, oracle_calls,
                    device_attempts, executed, interrupted_at, caller, call >>

SpecMessage == Init /\ [][build_request]_vars

SpecTwoRuns == Init /\ [][NextTwoRuns]_vars

(***************************************************************************)
(* _parse_response called on its own with one response                     *)
(***************************************************************************)
\* the JSON objects over the keys the program reads, and a text that is not JSON
ParseResponses ==
    { Resp(TRUE, k, a, label_E5, v) :
        k \in SUBSET {"action", "grid", "value", "explain"},
        a \in ACTION_TYPES \cup {"SWIPE"},
        v \in {"up", "down", "left", "text"} }
    \cup { Resp(FALSE, {}, "", << >>, "") }

\* the outcome of a call: the exception it raised or the value it returned
Raised(kind) == [raised |-> kind, value |-> << >>]

Returned(value) == [raised |-> "none", value |-> value]

parse_response_call ==
    /\ pc = "idle"
    /\ call.fn = "none"
    /\ \E r \in ParseResponses :
          call' = [fn |-> "_parse_response", args |-> << r >>,
                   ret |-> IF parse_response(r) = "ok"
                           THEN Returned(ActionOf(r))
                           ELSE Raised(parse_response(r))]
    /\ UNCHANGED << pc, max_steps, save_screenshots, step_count, history, action,
                    annotated_image, marked_image_b64, llm_attempt, exec_attempt,
                    tokens, log, outcome, error, result, request, captures,
                    oracle_calls, device_attempts, executed, interrupted_at,
                    caller >>

SpecParse == Init /\ [][parse_response_call]_vars

(***************************************************************************)
(* Python floats (IEEE 754 binary64).  cell_width = screen_width /         *)
(* grid_cols is the quotient rounded to 53 significant bits.  The float of *)
(* a / b is kept as a, b, the exponent e of the quotient and the rounding  *)
(* error err: its value is a / b + err / (b * 2^(52 - e)).                 *)
(***************************************************************************)
float_mantissa_bits == 53

RECURSIVE pow2(_)
pow2(i) == IF i <= 0 THEN 1 ELSE 2 * pow2(i - 1)

\* floor(log2(a / b)) for a, b >= 1
RECURSIVE floor_log2(_, _)
floor_log2(a, b) ==
    IF a >= 2 * b THEN floor_log2(a, 2 * b) + 1
    ELSE IF a < b THEN floor_log2(2 * a, b) - 1
    ELSE 0

is_pow2(n) == n = pow2(floor_log2(n, 1))

\* (a * 2^s) % c
RECURSIVE shift_mod(_, _, _)
shift_mod(a, s, c) == IF s = 0 THEN a % c ELSE shift_mod(2 * (a % c), s - 1, c)

\* a / b for integers a, b >= 1, rounded to nearest.  The remainder r of
\* a * 2^(52 - e) by b decides the direction; 2 * r = b needs b >= 2^53.
true_divide(a, b) ==
    LET e == floor_log2(a, b)
        r == shift_mod(a, (float_mantissa_bits - 1) - e, b)
    IN  [num |-> a, den |-> b, exp |-> e,
         err |-> IF r = 0 THEN 0 ELSE IF 2 * r < b THEN 0 - r ELSE b - r]

\* int((k2 / 2) * f) for k2 >= 0.  The product is off an integer by far more
\* than the rounding errors unless the exact product is an integer n; then
\* the result is n - 1 when the float product is rounded to a float below n.
int_mul_nonneg(k2, f) ==
    LET num == k2 * f.num
        den == 2 * f.den
    IN  IF num % den # 0 \/ num = 0 \/ f.err >= 0 THEN num \div den
        ELSE LET n == num \div den
                 d == floor_log2(n, 1) - f.exp
                 lhs == k2 * (0 - f.err) * (IF is_pow2(n) THEN 2 ELSE 1) * pow2(0 - d)
                 rhs == f.den * pow2(d)
             IN  IF lhs > rhs THEN n - 1 ELSE n

\* int((k2 / 2) * f): int() truncates towards zero
int_mul(k2, f) ==
    IF k2 >= 0 THEN int_mul_nonneg(k2, f) ELSE 0 - int_mul_nonneg(0 - k2, f)

\* int(a / f) for a >= 0: as int_mul_nonneg, for the quotient
int_div_nonneg(a, f) ==
    LET num == a * f.den
    IN  IF num % f.num # 0 \/ num = 0 \/ f.err <= 0 THEN num \div f.num
        ELSE LET m == num \div f.num
                 d == floor_log2(m, 1) - f.exp
                 lhs == 2 * m * f.err * (IF is_pow2(m) THEN 2 ELSE 1) * pow2(0 - d)
                 rhs == f.num * pow2(d)
             IN  IF lhs > rhs THEN m - 1 ELSE m

\* int(x / f)
int_div(x, f) ==
    IF x >= 0 THEN int_div_nonneg(x, f) ELSE 0 - int_div_nonneg(0 - x, f)

max(a, b) == IF a >= b THEN a ELSE b

min(a, b) == IF a <= b THEN a ELSE b

(***************************************************************************)
(* GridConverter (grid_converter.py) on a grid configuration               *)
(***************************************************************************)
\* the grid configuration of Settings: cell sizes are float quotients
GridConfig(cols, rows, width, height) ==
    [grid_cols |-> cols, grid_rows |-> rows,
     screen_width |-> width, screen_height |-> height,
     cell_width |-> true_divide(width, cols),
     cell_height |-> true_divide(height, rows)]

\* self.col_letters = [chr(65 + i) for i in range(self.cols)]
GridConverter_col_letters(config) == SubSeq(chr65, 1, config.grid_cols)

\* str(row) for row >= 0
RECURSIVE str_int(_)
str_int(n) ==
    IF n < 10 THEN << digits[n + 1] >>
    ELSE str_int(n \div 10) \o << digits[(n % 10) + 1] >>

\* _single_grid_to_pixel with the row checked against 1 only
GridConverter_single_grid_to_pixel_any_row(config, grid_arg) ==
    LET grid_str == upper(strip(grid_arg))
        letters == GridConverter_col_letters(config)
    IN  IF Len(grid_str) < 2 THEN Raised("InvalidLabel")
        ELSE IF ~InSeq(letters, grid_str[1]) THEN Raised("InvalidLabel")
        ELSE IF ~int_ok(Tail(grid_str)) THEN Raised("InvalidLabel")
        ELSE IF ~(1 <= int_value(Tail(grid_str))) THEN Raised("InvalidLabel")
        ELSE LET col_index == IndexOf(letters, grid_str[1]) - 1
                 row == int_value(Tail(grid_str))
             IN  Returned(<< int_mul(2 * col_index + 1, config.cell_width),
                             int_mul(2 * row - 1, config.cell_height) >>)

GridConverter_single_grid_to_pixel(config, grid_arg) ==
    LET grid_str == upper(strip(grid_arg))
        letters == GridConverter_col_letters(config)
    IN  IF Len(grid_str) < 2 THEN Raised("InvalidLabel")
        ELSE IF ~InSeq(letters, grid_str[1]) THEN Raised("InvalidLabel")
        ELSE IF ~int_ok(Tail(grid_str)) THEN Raised("InvalidLabel")
        ELSE IF ~(1 <= int_value(Tail(grid_str))
                    /\ int_value(Tail(grid_str)) <= config.grid_rows)
             THEN Raised("InvalidLabel")
        ELSE LET col_index == IndexOf(letters, grid_str[1]) - 1
                 row == int_value(Tail(grid_str))
             IN  Returned(<< int_mul(2 * col_index + 1, config.cell_width),
                             int_mul(2 * row - 1, config.cell_height) >>)

\* return self._single_grid_to_pixel(grid_str.strip().upper())
GridConverter_grid_to_pixel(config, grid_str) ==
    GridConverter_single_grid_to_pixel(config, upper(strip(grid_str)))

\* pixel_to_grid rounding the quotient half up instead of truncating it
GridConverter_pixel_to_grid_rounded(config, x, y) ==
    LET col_index == max(0, min(int_div(2 * x + config.screen_width \div config.grid_cols,
                                        config.cell_width) \div 2,
                                config.grid_cols - 1))
        row_index == max(0, min(int_div(y, config.cell_height), config.grid_rows - 1))
    IN  Returned(<< GridConverter_col_letters(config)[col_index + 1] >>
                 \o str_int(row_index + 1))

\* pixel_to_grid writing row_index, the 0-indexed row
GridConverter_pixel_to_grid_row_index(config, x, y) ==
    LET col_index == max(0, min(int_div(x, config.cell_width), config.grid_cols - 1))
        row_index == max(0, min(int_div(y, config.cell_height), config.grid_rows - 1))
    IN  Returned(<< GridConverter_col_letters(config)[col_index + 1] >>
                 \o str_int(row_index))

GridConverter_pixel_to_grid(config, x, y) ==
    LET col_index == max(0, min(int_div(x, config.cell_width), config.grid_cols - 1))
        row_index == max(0, min(int_div(y, config.cell_height), config.grid_rows - 1))
    IN  Returned(<< GridConverter_col_letters(config)[col_index + 1] >>
                 \o str_int(row_index + 1))

\* grid_str[0] of an empty string is an IndexError; int(...) and
\* col_letters.index(...) raise ValueError; the row is not compared with rows
GridConverter_get_cell_bounds(config, grid_arg) ==
    LET grid_str == upper(strip(grid_arg))
        letters == GridConverter_col_letters(config)
    IN  IF grid_str = << >> THEN Raised("IndexError")
        ELSE IF ~int_ok(Tail(grid_str)) THEN Raised("ValueError")
        ELSE IF ~InSeq(letters, grid_str[1]) THEN Raised("ValueError")
        ELSE LET col_index == IndexOf(letters, grid_str[1]) - 1
                 row == int_value(Tail(grid_str))
             IN  Returned(<< int_mul(2 * col_index, config.cell_width),
                             int_mul(2 * (row - 1), config.cell_height),
                             int_mul(2 * (col_index + 1), config.cell_width),
                             int_mul(2 * row, config.cell_height) >>)

(***************************************************************************)
(* A GridConverter is constructed on a grid configuration and one of its   *)
(* methods is called.                                                      *)
(***************************************************************************)
\* skip_auto_detect / the fallback screen with the auto-calculated grid
DefaultGrid == GridConfig(grid_cols, grid_rows, screen_width, screen_height)

\* grids with cols and rows given in config.yaml: a 1920x1080 screen with
\* 11x10 cells, the 1080x2400 screen with 25x20 cells
CustomGrids == { GridConfig(11, 10, 1920, 1080), GridConfig(25, 20, 1080, 2400) }

SmallGrids ==
    { GridConfig(c, r, w, h) :
        c \in 1..MaxCols, r \in 1..MaxRows, w \in 1..MaxWidth, h \in 1..MaxHeight }

GridConfigs == SmallGrids \cup CustomGrids \cup {DefaultGrid}

\* the label of a cell: column letter and row number
Label(col_index, row) == << chr65[col_index + 1] >> \o str_int(row)

\* the labels of the grid in the form pixel_to_grid writes
Labels(config) ==
    { Label(c, r) : c \in 0..(config.grid_cols - 1), r \in 1..config.grid_rows }

\* other arguments: column after the last, rows 0, rows + 1 and -1, a row
\* that is no number, no row, the empty string, a digit for the column, and
\* spellings of A1 that strip(), upper() and int() accept
OtherLabels(config) ==
    { << chr65[config.grid_cols + 1], "1" >>,
      << "A", "0" >>,
      << "A" >> \o str_int(config.grid_rows + 1),
      << "A", "-", "1" >>,
      << "A", "x" >>,
      << "A" >>,
      << >>,
      << "1", "1" >>,
      << " ", "a", "1", " " >>,
      << "A", "+", "1" >>,
      << "A", "0", "1" >> }

LabelInputs(config) == Labels(config) \cup OtherLabels(config)

\* coordinates along one axis: around every cell edge, every cell centre,
\* and every coordinate from -1 to one past the screen on the small grids
AxisPoints(pixels, cells, bound) ==
    { (k * pixels) \div cells + d : k \in 0..cells, d \in {-1, 0, 1} }
    \cup { ((2 * k + 1) * pixels) \div (2 * cells) : k \in 0..(cells - 1) }
    \cup (IF pixels <= bound THEN (-1)..(pixels + 1) ELSE {})

XPoints(config) == AxisPoints(config.screen_width, config.grid_cols, MaxWidth)

YPoints(config) == AxisPoints(config.screen_height, config.grid_rows, MaxHeight)

\* GridConverter(config)
GridConverter_init ==
    /\ pc = "idle"
    /\ call.fn = "none"
    /\ \E config \in GridConfigs :
          call' = [fn |-> "GridConverter", args |-> << config >>, ret |-> Returned(config)]
    /\ UNCHANGED << pc, max_steps, save_screenshots, step_count, history, action,
                    annotated_image, marked_image_b64, llm_attempt, exec_attempt,
                    tokens, log, outcome, error, result, request, captures,
                    oracle_calls, device_attempts, executed, interrupted_at,
                    caller >>

\* converter.grid_to_pixel(grid_str)
grid_to_pixel_call ==
    /\ call.fn = "GridConverter"
    /\ LET config == call.args[1]
       IN  \E grid_str \in LabelInputs(config) :
             call' = [fn |-> "grid_to_pixel", args |-> << config, grid_str >>,
                      ret |-> GridConverter_grid_to_pixel(config, grid_str)]
    /\ UNCHANGED << pc, max_steps, save_screenshots, step_count, history, action,
                    annotated_image, marked_image_b64, llm_attempt, exec_attempt,
                    tokens, log, outcome, error, result, request, captures,
                    oracle_calls, device_attempts, executed, interrupted_at,
                    caller >>

\* converter.pixel_to_grid(x, y)
pixel_to_grid_call ==
    /\ call.fn = "GridConverter"
    /\ LET config == call.args[1]
       IN  \E x \in XPoints(config), y \in YPoints(config) :
             call' = [fn |-> "pixel_to_grid", args |-> << config, x, y >>,
                      ret |-> GridConverter_pixel_to_grid(config, x, y)]
    /\ UNCHANGED << pc, max_steps, save_screenshots, step_count, history, action,
                    annotated_image, marked_image_b64, llm_attempt, exec_attempt,
                    tokens, log, outcome, error, result, request, captures,
                    oracle_calls, device_attempts, executed, interrupted_at,
                    caller >>

\* converter.get_cell_bounds(grid_str)
get_cell_bounds_call ==
    /\ call.fn = "GridConverter"
    /\ LET config == call.args[1]
       IN  \E grid_str \in LabelInputs(config) :
             call' = [fn |-> "get_cell_bounds", args |-> << config, grid_str >>,
                      ret |-> GridConverter_get_cell_bounds(config, grid_str)]
    /\ UNCHANGED << pc, max_steps, save_screenshots, step_count, history, action,
                    annotated_image, marked_image_b64, llm_attempt, exec_attempt,
                    tokens, log, outcome, error, result, request, captures,
                    oracle_calls, device_attempts, executed, interrupted_at,
                    caller >>

NextGrid ==
    \/ GridConverter_init
    \/ grid_to_pixel_call
    \/ pixel_to_grid_call
    \/ get_cell_bounds_call

SpecGrid == Init /\ [][NextGrid]_vars

(***************************************************************************)
(* Settings (settings.py): the grid the converter and the overlay get when *)
(* they are built without a config of their own.                           *)
(***************************************************************************)
\* cols: Optional[int] = Field(default=None, ge=5, le=30)
cols_ge == 5
cols_le == 30

\* rows: Optional[int] = Field(default=None, ge=10, le=50)
rows_ge == 10
rows_le == 50

\* _calculate_grid: target of about 108 x 120 pixels per cell
target_cell_width == 108
target_cell_height == 120

\* cols = max(8, min(cols, 20)), rows = max(15, min(rows, 35))
auto_cols_min == 8
auto_cols_max == 20
auto_rows_min == 15
auto_rows_max == 35

\* an Optional[int]: None is the empty tuple, a value n is << n >>
None == << >>

Some(n) == << n >>

\* round(a / b) for a, b > 0: the float quotient rounded half to even.  The
\* quotient is a tie only when it is exactly q + 0.5, which is a float; any
\* other quotient is further from a tie than the float error.
round_div(a, b) ==
    LET q == a \div b
        r == a % b
    IN  IF 2 * r < b THEN q
        ELSE IF 2 * r > b THEN q + 1
        ELSE IF q % 2 = 0 THEN q ELSE q + 1

\* GridStyle(**grid_data): pydantic checks ge / le of a value that is given
GridStyle_valid(cols, rows) ==
    /\ cols # None => (cols[1] >= cols_ge /\ cols[1] <= cols_le)
    /\ rows # None => (rows[1] >= rows_ge /\ rows[1] <= rows_le)

Settings_calculate_grid(width, height) ==
    [cols |-> max(auto_cols_min, min(round_div(width, target_cell_width), auto_cols_max)),
     rows |-> max(auto_rows_min, min(round_div(height, target_cell_height), auto_rows_max))]

\* Settings.__init__ as far as the grid goes; the result is GRID_CONFIG
Settings(cols, rows, width, height) ==
    IF ~GridStyle_valid(cols, rows) THEN Raised("ValidationError")
    ELSE IF cols # None /\ rows # None
         THEN Returned(GridConfig(cols[1], rows[1], width, height))
         ELSE LET auto == Settings_calculate_grid(width, height)
              IN  Returned(GridConfig(auto.cols, auto.rows, width, height))

\* self.col_letters of GridOverlay
GridOverlay_col_letters(config) == SubSeq(chr65, 1, config.grid_cols)

\* screens _auto_detect_screen reports: the fallback phone, a small phone,
\* a tablet in landscape
Screens == { << 1080, 2400 >>, << 720, 1280 >>, << 2560, 1600 >> }

\* grid.cols of config.yaml: absent, below the range, its ends, the last
\* letter of the alphabet and the one after it, above the range
GridStyleCols == { None, Some(4), Some(5), Some(26), Some(27), Some(30), Some(31) }

\* grid.rows of config.yaml: absent, below the range, its lower end
GridStyleRows == { None, Some(9), Some(10) }

\* get_settings()
Settings_init ==
    /\ pc = "idle"
    /\ call.fn = "none"
    /\ \E cols \in GridStyleCols, rows \in GridStyleRows, screen \in Screens :
          call' = [fn |-> "Settings", args |-> << cols, rows, screen >>,
                   ret |-> Settings(cols, rows, screen[1], screen[2])]
    /\ UNCHANGED << pc, max_steps, save_screenshots, step_count, history, action,
                    annotated_image, marked_image_b64, llm_attempt, exec_attempt,
                    tokens, log, outcome, error, result, request, captures,
                    oracle_calls, device_attempts, executed, interrupted_at,
                    caller >>

\* GridConverter(): self.config = config or GRID_CONFIG
GridConverter_init_default ==
    /\ call.fn = "Settings"
    /\ call.ret.raised = "none"
    /\ call' = [fn |-> "GridConverter", args |-> << call.ret.value >>,
                ret |-> Returned(call.ret.value)]
    /\ UNCHANGED << pc, max_steps, save_screenshots, step_count, history, action,
                    annotated_image, marked_image_b64, llm_attempt, exec_attempt,
                    tokens, log, outcome, error, result, request, captures,
                    oracle_calls, device_attempts, executed, interrupted_at,
                    caller >>

NextSettings ==
    \/ Settings_init
    \/ GridConverter_init_default
    \/ grid_to_pixel_call
    \/ pixel_to_grid_call

SpecSettings == Init /\ [][NextSettings]_vars

(***************************************************************************)
(* main (main.py): the agent is built, run_task is called once and the     *)
(* process exits.  run_task_start is the call of main; main passes         *)
(* max_steps = 50 and save_screenshots = True, the model runs every        *)
(* max_steps up to MaxSteps and both settings.                             *)
(***************************************************************************)
\* sys.exit(130) in `except KeyboardInterrupt`
exit_interrupted == 130

\* sys.exit(status)
sys_exit(status) ==
    /\ pc' = "exited"
    /\ call' = [fn |-> "sys.exit", args |-> << status >>, ret |-> Raised("SystemExit")]

\* sys.exit(0 if result["success"] else 1)
main_exit ==
    /\ pc = "returned"
    /\ sys_exit(IF result.success THEN 0 ELSE 1)
    /\ UNCHANGED << max_steps, save_screenshots, step_count, history, action,
                    annotated_image, marked_image_b64, llm_attempt, exec_attempt,
                    tokens, log, outcome, error, result, request, captures,
                    oracle_calls, device_attempts, executed, interrupted_at,
                    caller >>

\* except KeyboardInterrupt, of main: a Ctrl-C that run_task does not catch,
\* while the agent is built or in the finally clause of run_task
main_KeyboardInterrupt ==
    /\ pc \in {"idle", "finally"}
    /\ call.fn = "none"
    /\ sys_exit(exit_interrupted)
    /\ UNCHANGED << max_steps, save_screenshots, step_count, history, action,
                    annotated_image, marked_image_b64, llm_attempt, exec_attempt,
                    tokens, log, outcome, error, result, request, captures,
                    oracle_calls, device_attempts, executed, interrupted_at,
                    caller >>

\* except Exception, of main: LightGUIAgent(verbose=True) raises
main_Exception ==
    /\ pc = "idle"
    /\ call.fn = "none"
    /\ sys_exit(1)
    /\ UNCHANGED << max_steps, save_screenshots, step_count, history, action,
                    annotated_image, marked_image_b64, llm_attempt, exec_attempt,
                    tokens, log, outcome, error, result, request, captures,
                    oracle_calls, device_attempts, executed, interrupted_at,
                    caller >>

NextMain ==
    \/ Next
    \/ main_exit
    \/ main_KeyboardInterrupt
    \/ main_Exception

SpecMain == Init /\ [][NextMain]_vars

(***************************************************************************)
(* Well-formedness of the state                                            *)
(***************************************************************************)
TypeOK ==
    /\ pc \in AllPcs
    /\ max_steps \in 1..MaxSteps
    /\ save_screenshots \in BOOLEAN
    /\ step_count \in 0..max_steps
    /\ Len(history) <= step_count
    /\ llm_attempt \in 0..(get_action_max_retries - 1)
    /\ exec_attempt \in 0..(execute_max_retries - 1)
    /\ tokens \in 0..(get_action_max_retries * MaxSteps)
    /\ outcome \in {"none", "running", "Done", "MaxStepsReached", "UserInterrupt", "Error"}
    /\ interrupted_at \in TryPcs \cup {"none"}

(***************************************************************************)
(* Observations on the log and the history                                 *)
(***************************************************************************)
EventsOf(event_type) == SelectSeq(log, LAMBDA e : e.event_type = event_type)

HasComplete(h) == \E i \in 1..Len(h) : h[i].action = "COMPLETE"

Terminated == pc \in {"finally", "returned"}

(***************************************************************************)
(* C1.  A run in which the oracle never returns COMPLETE and in which no   *)
(* error and no interrupt occurs executes exactly max_steps steps and then *)
(* ends as MaxStepsReached, with success = false and max_steps history     *)
(* entries; a step max_steps + 1 is never started.                         *)
(***************************************************************************)
C1_MaxStepsReached ==
    /\ step_count <= max_steps
    /\ \A i \in 1..Len(log) : log[i].step <= max_steps
    /\ (pc = "loop_head" /\ step_count = max_steps) => ~ENABLED loop_next
    /\ (pc = "loop_head" /\ step_count = max_steps) => ENABLED loop_exhausted
    /\ pc = "loop_else" => ENABLED loop_else
    /\ pc = "finally" => ENABLED finally_return
    /\ (Terminated /\ outcome \notin {"Error", "UserInterrupt"} /\ ~HasComplete(history))
          => /\ outcome = "MaxStepsReached"
             /\ step_count = max_steps
             /\ Len(EventsOf("step_start")) = max_steps
             /\ Len(EventsOf("step_complete")) = max_steps
             /\ Len(executed) = max_steps
             /\ Len(history) = max_steps
    /\ outcome = "MaxStepsReached" => ~HasComplete(history)
    /\ (pc = "returned" /\ outcome = "MaxStepsReached")
          => /\ result.returned
             /\ ~result.success
             /\ result.steps = max_steps
             /\ Len(result.history) = max_steps

C1_Witness ==
    /\ pc = "returned"
    /\ outcome = "MaxStepsReached"
    /\ max_steps = MaxSteps
    /\ Len(result.history) = MaxSteps

(***************************************************************************)
(* C2.  When the action recorded at a step is COMPLETE, at any step from 1 *)
(* to max_steps, the run ends with success = true and no capture, no       *)
(* decision request and no device action happens after the COMPLETE is     *)
(* recorded.  The run ends as Done, unless a KeyboardInterrupt arrives     *)
(* between the append and the break: then it ends as UserInterrupt.        *)
(***************************************************************************)
CompleteRecorded == history # << >> /\ history[Len(history)].action = "COMPLETE"

C2_StateAfterComplete ==
    CompleteRecorded =>
        /\ pc \in {"check_complete", "finally", "returned"}
        /\ outcome \in {"running", "Done", "UserInterrupt"}
        /\ outcome = "running" <=> pc = "check_complete"
        /\ outcome = "UserInterrupt" => interrupted_at = "check_complete"
        /\ pc = "check_complete" => ENABLED check_complete
        /\ pc = "finally" => ENABLED finally_return
        /\ pc = "returned" => result.returned /\ result.success

C2_NoCallAfterComplete ==
    CompleteRecorded =>
        /\ captures' = captures
        /\ oracle_calls' = oracle_calls
        /\ device_attempts' = device_attempts
        /\ tokens' = tokens
        /\ executed' = executed
        /\ history' = history
        /\ pc' \in {"finally", "returned"}
        /\ (pc = "check_complete" /\ interrupted_at' = "none") => outcome' = "Done"

C2_CompleteEndsRun == [] C2_StateAfterComplete /\ [][C2_NoCallAfterComplete]_vars

\* the original statement: a recorded COMPLETE always ends the run as Done
C2_CompleteEndsInDone ==
    (CompleteRecorded /\ pc = "returned") => (outcome = "Done" /\ result.success)

\* COMPLETE recorded at the last step the run may take, ending as Done
C2_Witness ==
    /\ pc = "returned"
    /\ outcome = "Done"
    /\ CompleteRecorded
    /\ step_count = max_steps
    /\ max_steps = MaxSteps
    /\ result.success

(***************************************************************************)
(* C3.  In every terminal state the success flag of the summary is true    *)
(* exactly when the final history entry is COMPLETE: that is every Done    *)
(* run, and a run interrupted after the COMPLETE entry was appended and    *)
(* before the loop was left.  A COMPLETE entry is only ever the last entry *)
(* of the history.  Every run that ends by max steps or by an error, and   *)
(* every run interrupted at another position, reports success = false.     *)
(***************************************************************************)
InterruptedAfterComplete ==
    outcome = "UserInterrupt" /\ interrupted_at = "check_complete" /\ CompleteRecorded

C3_SuccessIffLastComplete ==
    /\ \A i \in 1..(Len(history) - 1) : history[i].action # "COMPLETE"
    /\ outcome = "Done" => CompleteRecorded
    /\ outcome \in {"MaxStepsReached", "Error"} => ~CompleteRecorded
    /\ pc = "returned" =>
          /\ result.returned
          /\ result.history = history
          /\ result.success <=> CompleteRecorded
          /\ result.success <=> (outcome = "Done" \/ InterruptedAfterComplete)
          /\ outcome \in {"MaxStepsReached", "Error"} => ~result.success
          /\ log[Len(log)].event_type = "task_complete"
          /\ log[Len(log)].ok = result.success

\* the original statement: success exactly when the run ended in Done, and
\* every aborted run reports success = false
C3_SuccessIffDone ==
    pc = "returned" =>
        /\ result.success <=> (outcome = "Done" /\ CompleteRecorded)
        /\ outcome \in {"MaxStepsReached", "Error", "UserInterrupt"} => ~result.success

\* an interrupted run that reports success
C3_Witness ==
    /\ pc = "returned"
    /\ InterruptedAfterComplete
    /\ result.success

(***************************************************************************)
(* C4.  While one step is deciding the oracle is called at most 3 times: a *)
(* response that fails validation is followed by another call, the first   *)
(* response that passes validation is the step's action, and when all 3    *)
(* attempts fail the run aborts with the error of the last attempt and no  *)
(* device action is executed in that step.                                 *)
(***************************************************************************)
ValidationErrors ==
    {"MalformedResponse", "MissingAction", "UnknownActionType", "MissingField",
     "InvalidScrollDirection"}

\* the step has its action: the positions from execute_action to the delay
ActingPcs == {"executing", "exec_backoff", "marking", "recording", "check_complete", "delay"}

IsValidatedAction(a) ==
    \E r \in OracleResponses : parse_response(r) = "ok" /\ a = ActionOf(r)

DecisionFailed == outcome = "Error" /\ error.stage = "decide"

C4_DecidingState ==
    /\ oracle_calls <= 3
    /\ pc \in {"deciding", "llm_backoff"} => oracle_calls = llm_attempt + 1
    /\ pc = "llm_backoff" =>
          /\ oracle_calls < 3
          /\ error.stage = "decide"
          /\ error.kind \in ValidationErrors \cup {"ApiError"}
          /\ ENABLED get_action_retry
    /\ pc \in ActingPcs =>
          /\ IsValidatedAction(action)
          /\ oracle_calls \in 1..3
    /\ DecisionFailed =>
          /\ Terminated
          /\ oracle_calls = 3
          /\ device_attempts = 0
          /\ Len(executed) = step_count - 1
          /\ Len(history) = step_count - 1
          /\ error.kind \in ValidationErrors \cup {"ApiError"}
          /\ \E i \in 1..Len(log) :
                log[i].event_type = "task_error" /\ log[i].detail = error.kind
          /\ \A i \in 1..Len(log) :
                log[i].step = step_count =>
                    log[i].event_type \notin {"llm_response", "action_execution"}

C4_DecidingStep ==
    /\ pc = "deciding" =>
          \/ /\ pc' = "executing"
             /\ tokens' = tokens + 1
             /\ IsValidatedAction(action')
             /\ oracle_calls' = oracle_calls
          \/ /\ pc' = "llm_backoff"
             /\ oracle_calls < 3
             /\ tokens' = tokens + 1 <=> error'.kind \in ValidationErrors
             /\ tokens' = tokens <=> error'.kind = "ApiError"
          \/ /\ pc' = "finally"
             /\ outcome' = "Error"
             /\ oracle_calls = 3
             /\ tokens' = tokens + 1 <=> error'.kind \in ValidationErrors
             /\ tokens' = tokens <=> error'.kind = "ApiError"
          \/ /\ pc' = "finally"
             /\ outcome' = "UserInterrupt"
    /\ pc = "llm_backoff" =>
          \/ pc' = "deciding" /\ oracle_calls' = oracle_calls + 1
          \/ pc' = "finally" /\ outcome' = "UserInterrupt"
    /\ (pc \in ActingPcs /\ pc' \in ActingPcs) =>
          /\ action' = action
          /\ oracle_calls' = oracle_calls

C4_DecisionRetries == [] C4_DecidingState /\ [][C4_DecidingStep]_vars

\* three responses of the first step were rejected, the third as a SCROLL
\* with a direction other than up or down
C4_Witness ==
    /\ pc = "returned"
    /\ DecisionFailed
    /\ step_count = 1
    /\ tokens = 3
    /\ error.kind = "InvalidScrollDirection"

(***************************************************************************)
(* C5.  While one step is executing, the device action is attempted at     *)
(* most 2 times: once when the first attempt succeeds, a second time after *)
(* a failed first attempt.  When both attempts fail the run aborts, the    *)
(* error event of the current step is written before the failure           *)
(* propagates, and the failed action is not appended to the history.       *)
(***************************************************************************)
ExecutionFailed == outcome = "Error" /\ error.stage = "execute"

PostExecPcs == {"marking", "recording", "check_complete", "delay"}

C5_ExecutingState ==
    /\ device_attempts <= 2
    /\ pc \in {"executing", "exec_backoff"} => device_attempts = exec_attempt + 1
    /\ pc = "exec_backoff" =>
          /\ device_attempts = 1
          /\ error.stage = "execute"
          /\ ENABLED execute_action_retry
    /\ device_attempts = 2 => exec_attempt = 1
    /\ pc \in PostExecPcs =>
          /\ device_attempts = exec_attempt + 1
          /\ Len(executed) = step_count
          /\ executed[step_count] = action
    /\ ExecutionFailed =>
          /\ Terminated
          /\ device_attempts = 2
          /\ Len(executed) = step_count - 1
          /\ Len(history) = step_count - 1
          /\ \E i \in 1..(Len(log) - 1) :
                /\ log[i] = Event("error", step_count, FALSE, error.kind)
                /\ log[i + 1].event_type = "task_error"
          /\ \A i \in 1..Len(log) :
                log[i].step = step_count =>
                    log[i].event_type \notin {"action_execution", "step_complete"}
          /\ pc = "returned" => Len(result.history) = step_count - 1

C5_ExecutingStep ==
    /\ pc = "executing" =>
          \/ /\ pc' = "marking"
             /\ executed' = Append(executed, action)
             /\ device_attempts' = device_attempts
          \/ /\ pc' = "exec_backoff"
             /\ device_attempts = 1
             /\ device_attempts' = device_attempts
             /\ log' = log
          \/ /\ pc' = "finally"
             /\ outcome' = "Error"
             /\ device_attempts = 2
             /\ Len(log') = Len(log) + 2
             /\ log'[Len(log) + 1] = Event("error", step_count, FALSE, error'.kind)
             /\ history' = history
          \/ /\ pc' = "finally"
             /\ outcome' = "UserInterrupt"
    /\ pc = "exec_backoff" =>
          \/ pc' = "executing" /\ device_attempts' = 2
          \/ pc' = "finally" /\ outcome' = "UserInterrupt"
    /\ (pc \in PostExecPcs /\ pc' \in PostExecPcs) => device_attempts' = device_attempts

C5_ExecutionRetries == [] C5_ExecutingState /\ [][C5_ExecutingStep]_vars

\* both attempts of the second step's action failed on the device
C5_Witness ==
    /\ pc = "returned"
    /\ ExecutionFailed
    /\ error.kind = "DeviceError"
    /\ step_count = 2
    /\ device_attempts = 2
    /\ Len(result.history) = 1

(***************************************************************************)
(* C6.  A failed screenshot capture is fatal at once: the capture of a     *)
(* step is attempted once and never retried, the run aborts, and neither a *)
(* decision request nor a device action is issued for that step or for a   *)
(* later one.                                                              *)
(***************************************************************************)
CaptureFailed == error.stage = "capture"

C6_CaptureState ==
    /\ captures <= 1
    /\ pc = "capturing" => (captures = 1 /\ oracle_calls = 0 /\ device_attempts = 0)
    /\ CaptureFailed =>
          /\ outcome = "Error"
          /\ Terminated
          /\ captures = 1
          /\ oracle_calls = 0
          /\ device_attempts = 0
          /\ Len(EventsOf("step_start")) = step_count
          /\ Len(executed) = step_count - 1
          /\ Len(history) = step_count - 1
          /\ \A i \in 1..Len(log) :
                log[i].event_type \in {"screenshot", "llm_response", "action_execution"}
                    => log[i].step < step_count

C6_CaptureStep ==
    /\ pc = "capturing" =>
          /\ captures' = captures
          /\ \/ pc' = "annotating"
             \/ pc' = "finally" /\ outcome' = "Error" /\ error'.stage = "capture"
             \/ pc' = "finally" /\ outcome' = "UserInterrupt"
    /\ CaptureFailed =>
          /\ pc' = "returned"
          /\ UNCHANGED << step_count, captures, oracle_calls, device_attempts,
                          executed, request, history >>

C6_CaptureFailureIsFatal == [] C6_CaptureState /\ [][C6_CaptureStep]_vars

\* the capture of the second of three steps failed
C6_Witness ==
    /\ pc = "returned"
    /\ CaptureFailed
    /\ step_count = 2
    /\ max_steps = 3
    /\ Len(result.history) = 1

(***************************************************************************)
(* C7.  No fatal condition of a run (failed capture, decision retries      *)
(* exhausted, device-action retries exhausted) leaves run_task as an       *)
(* exception: run_task returns a result carrying the step count, the cost  *)
(* and the history accumulated before the failure.  (The elapsed time of   *)
(* the result is a wall-clock reading and is not part of the state.)       *)
(***************************************************************************)
FatalStages == {"capture", "annotate", "decide", "execute", "mark"}

C7_FatalState ==
    /\ pc # "propagated"
    /\ outcome = "Error" =>
          /\ error.stage \in FatalStages
          /\ Terminated
          /\ pc = "finally" => ENABLED finally_return
          /\ pc = "returned" =>
                /\ result.returned
                /\ result.steps = step_count
                /\ result.cost = tokens
                /\ result.history = history
                /\ Len(result.history) = step_count - 1
                /\ \A i \in 1..Len(result.history) :
                      EntryAction(result.history[i]) = executed[i]
                /\ ~ result.success

C7_FatalStep ==
    (outcome = "Error" /\ pc = "finally") =>
        /\ pc' = "returned"
        /\ result'.returned
        /\ history' = history

C7_FailureYieldsResult == [] C7_FatalState /\ [][C7_FatalStep]_vars

\* the decision retries of the third step are exhausted
C7_Witness ==
    /\ pc = "returned"
    /\ outcome = "Error"
    /\ error.stage = "decide"
    /\ result.steps = 3
    /\ Len(result.history) = 2
    /\ result.cost >= 3

(***************************************************************************)
(* C8.  A KeyboardInterrupt can arrive at every position inside the try    *)
(* block; it takes the run directly to the interrupt handler               *)
(* (UserInterrupt), the result is still returned, and it holds every       *)
(* history entry that had been appended before the interrupt.              *)
(***************************************************************************)
Interrupted == interrupted_at # "none"

C8_InterruptState ==
    /\ pc \in TryPcs => ENABLED KeyboardInterrupt
    /\ outcome = "UserInterrupt" <=> Interrupted
    /\ Interrupted =>
          /\ Terminated
          /\ Len(EventsOf("task_interrupted")) = 1
          /\ Len(EventsOf("task_error")) = 0
          /\ pc = "finally" => ENABLED finally_return
          /\ pc = "returned" =>
                /\ result.returned
                /\ result.history = history
                /\ result.steps = step_count

C8_InterruptStep ==
    /\ (~ Interrupted /\ Interrupted') =>
          /\ pc \in TryPcs
          /\ interrupted_at' = pc
          /\ pc' = "finally"
          /\ outcome' = "UserInterrupt"
          /\ history' = history
          /\ log' = Append(log, Event("task_interrupted", 0, FALSE, "user_interrupt"))
    /\ Interrupted =>
          /\ pc' = "returned"
          /\ history' = history
          /\ result'.history = history

C8_InterruptKeepsHistory == [] C8_InterruptState /\ [][C8_InterruptStep]_vars

\* interrupted during the device action of the third step
C8_Witness ==
    /\ pc = "returned"
    /\ interrupted_at = "executing"
    /\ result.steps = 3
    /\ Len(result.history) = 2
    /\ result.history = history

(***************************************************************************)
(* C9.  As claimed: a cancellation takes effect only between two steps or  *)
(* between two iterations of a retry loop, never during an in-flight       *)
(* blocking call (capture, oracle request, device action) nor in the code  *)
(* between those points.                                                   *)
(***************************************************************************)
C9_CancellationOnlyAtBoundaries == interrupted_at \in BoundaryPcs \cup {"none"}

(***************************************************************************)
(* C9, amended.  A cancellation takes effect at whatever position inside   *)
(* the try block it arrives: between steps, during the backoff of a retry  *)
(* loop, in the code between the calls, and during an in-flight capture,   *)
(* oracle request or device action, which it preempts.  The retry loops    *)
(* neither catch nor delay it: no further attempt is made, the interrupted *)
(* call contributes nothing to the step, and the run goes directly to the  *)
(* interrupt handler.                                                      *)
(***************************************************************************)
C9_CancellationState ==
    /\ pc \in InFlightPcs => ENABLED KeyboardInterrupt
    /\ pc \in BoundaryPcs => ENABLED KeyboardInterrupt
    /\ interrupted_at \in InFlightPcs \cup {"llm_backoff", "exec_backoff"} =>
          /\ Len(history) = step_count - 1
          /\ Len(executed) = step_count - 1
          /\ Len(EventsOf("step_start")) = step_count
          /\ Len(EventsOf("action_execution")) = step_count - 1
    /\ interrupted_at \in {"capturing", "annotating", "get_action", "deciding",
                           "llm_backoff"} =>
          /\ Len(EventsOf("llm_response")) = step_count - 1
          /\ device_attempts = 0
    /\ interrupted_at = "capturing" => (oracle_calls = 0 /\ captures = 1)

C9_CancellationStep ==
    /\ (~ Interrupted /\ Interrupted') =>
          /\ interrupted_at' = pc
          /\ pc' = "finally"
          /\ UNCHANGED << step_count, captures, oracle_calls, device_attempts,
                          llm_attempt, exec_attempt, tokens, executed, action,
                          request, history >>
    /\ Interrupted =>
          UNCHANGED << step_count, captures, oracle_calls, device_attempts,
                       llm_attempt, exec_attempt, tokens, executed >>

C9_CancellationPreempts == [] C9_CancellationState /\ [][C9_CancellationStep]_vars

\* interrupted while the second oracle request of the second step was in flight
C9_Witness ==
    /\ pc = "returned"
    /\ interrupted_at = "deciding"
    /\ step_count = 2
    /\ oracle_calls = 2
    /\ llm_attempt = 1

(***************************************************************************)
(* C10.  At step n+1 the history given to get_action has exactly n         *)
(* entries: the actions executed at steps 1..n, in step order.  The        *)
(* history only ever grows by one entry at its end, the action of the      *)
(* current step.                                                           *)
(***************************************************************************)
C10_RequestState ==
    pc \in {"deciding", "llm_backoff"} =>
        /\ request.history = history
        /\ request.grid_image = step_count
        /\ Len(request.history) = step_count - 1
        /\ Len(executed) = step_count - 1
        /\ Len(EventsOf("action_execution")) = step_count - 1
        /\ \A i \in 1..Len(request.history) :
              /\ EntryAction(request.history[i]) = executed[i]
              /\ EventsOf("action_execution")[i].step = i
              /\ EventsOf("action_execution")[i].detail = request.history[i].action
              /\ EventsOf("step_complete")[i].step = i

C10_HistoryStep ==
    /\ history' # history =>
          /\ pc = "recording"
          /\ Len(history') = step_count
          /\ SubSeq(history', 1, Len(history)) = history
          /\ EntryAction(history'[Len(history')]) = action
          /\ executed[step_count] = action
    /\ (pc \in {"deciding", "llm_backoff"} /\ pc' \in {"deciding", "llm_backoff"}) =>
          request' = request

C10_RequestSeesPrefix == [] C10_RequestState /\ [][C10_HistoryStep]_vars

\* the request of the third step, after two different actions
C10_Witness ==
    /\ pc = "deciding"
    /\ step_count = 3
    /\ Len(request.history) = 2
    /\ request.history[1].action = "CLICK"
    /\ request.history[2].action = "SCROLL"

(***************************************************************************)
(* C11.  Within a run the history only grows by appending at its end, so   *)
(* every earlier value is a prefix of every later one and no entry changes *)
(* after its append; the history list held by the result of a finished run *)
(* is not changed when a later run is started on the same agent, nor by    *)
(* the steps of that later run.                                            *)
(***************************************************************************)
C11_HeldState ==
    /\ ~ caller.is_self
    /\ caller.run = 1 => caller = NoEarlierRun
    /\ pc = "returned" => result.history = history

C11_HistoryStep ==
    /\ (pc # "returned" /\ history' # history) =>
          /\ Len(history') = Len(history) + 1
          /\ SubSeq(history', 1, Len(history)) = history
          /\ caller'.history = caller.history
    /\ pc = "returned" =>
          /\ caller'.history = result.history
          /\ caller'.history = history
          /\ history' = << >>
    /\ caller.run = 2 => caller'.history = caller.history

C11_HistoryAppendOnly == [] C11_HeldState /\ [][C11_HistoryStep]_vars

\* the second run has appended an entry of its own; the first run's list still
\* holds its entry
C11_Witness ==
    /\ caller.run = 2
    /\ pc = "returned"
    /\ Len(caller.history) = 1
    /\ Len(result.history) = 1
    /\ caller.history[1].action = "CLICK"
    /\ result.history[1].action = "TYPE"

(***************************************************************************)
(* C12.  When the request of step n+1 carries a previous-step marked       *)
(* screenshot, it is the image drawn on step n's annotated screenshot for  *)
(* step n's action: never the image of an earlier or a later step, and     *)
(* never the image of the requesting step itself.                          *)
(***************************************************************************)
Requesting == pc \in {"deciding", "llm_backoff"}

HasMarked(h) == "marked_screenshot_b64" \in h.keys

C12_MarkedState ==
    /\ \A i \in 1..Len(history) :
          HasMarked(history[i]) =>
              history[i].marked_screenshot_b64 = Image(i, history[i].action)
    /\ Requesting =>
          /\ request.grid_image = step_count
          /\ step_count = 1 => request.previous = NoImage
          /\ request.previous # NoImage =>
                /\ step_count >= 2
                /\ request.previous.shot = step_count - 1
                /\ request.previous.act = executed[step_count - 1].action
                /\ request.previous = history[step_count - 1].marked_screenshot_b64

C12_MarkedStep ==
    (Requesting /\ Requesting') => request'.previous = request.previous

C12_MarkedIsPreviousStep == [] C12_MarkedState /\ [][C12_MarkedStep]_vars

\* the request of the third step carries the image of the second step's TYPE,
\* not the image of the first step's CLICK
C12_Witness ==
    /\ pc = "deciding"
    /\ step_count = 3
    /\ HasMarked(history[1])
    /\ history[1].action = "CLICK"
    /\ request.previous = Image(2, "TYPE")

(***************************************************************************)
(* C13.  As claimed: whenever any history entry carries a marked           *)
(* screenshot, the request includes the most recent one, also when the     *)
(* last entry (a SCROLL, say) carries none.                                *)
(***************************************************************************)
MarkedIndexes(h) == {i \in 1..Len(h) : HasMarked(h[i])}

MostRecentMarked(h) ==
    IF MarkedIndexes(h) = {} THEN NoImage
    ELSE h[CHOOSE i \in MarkedIndexes(h) : \A j \in MarkedIndexes(h) : j <= i]
            .marked_screenshot_b64

C13_IncludesMostRecentMarked ==
    Requesting => request.previous = MostRecentMarked(history)

(***************************************************************************)
(* C13, amended.  The request includes a marked screenshot exactly when    *)
(* the last history entry carries one, that is when the previous step      *)
(* executed a CLICK, TYPE or AWAKE with save_screenshots on, and then it   *)
(* is that step's image.  When the last entry carries none, no marked      *)
(* screenshot is included, even if an earlier entry carries one.           *)
(***************************************************************************)
C13_IncludesLastEntryMarked ==
    Requesting =>
        IF /\ step_count >= 2
           /\ save_screenshots
           /\ executed[step_count - 1].action \in {"CLICK", "TYPE", "AWAKE"}
        THEN request.previous = Image(step_count - 1, executed[step_count - 1].action)
        ELSE request.previous = NoImage

\* a marked CLICK, then a SCROLL: the request of the third step has no image
C13_Witness ==
    /\ pc = "deciding"
    /\ step_count = 3
    /\ HasMarked(history[1])
    /\ history[2].action = "SCROLL"
    /\ request.previous = NoImage

(***************************************************************************)
(* C14.  For a history of length L the text of the request lists exactly   *)
(* min(L, 5) prior actions: the last min(L, 5) entries of the history, in  *)
(* their order, numbered from 1; an older entry is never listed.           *)
(***************************************************************************)
ExplainOf(entry) == IF "explain" \in entry.keys THEN entry.explain ELSE ""

C14_ListsLastFive ==
    request # NoRequest =>
        LET h == request.history
            L == Len(request.history)
            k == IF L < 5 THEN L ELSE 5
            listed == request.message.previous_actions
        IN  /\ Len(listed) = k
            /\ \A i \in 1..k :
                  /\ listed[i].n = i
                  /\ listed[i].kind = h[L - k + i].action
                  /\ listed[i].explain = ExplainOf(h[L - k + i])
                  /\ listed[i].kind = "CLICK" => listed[i].grid = h[L - k + i].grid
                  /\ listed[i].kind \in {"TYPE", "SCROLL", "AWAKE"} =>
                        listed[i].value = h[L - k + i].value

\* six entries, the oldest a SCROLL: five CLICKs are listed, the SCROLL is not
C14_Witness ==
    /\ Len(request.history) = 6
    /\ request.history[1].action = "SCROLL"
    /\ Len(request.message.previous_actions) = 5
    /\ \A i \in 1..5 : request.message.previous_actions[i].kind = "CLICK"

C17_RunState ==
    /\ Len(history) <= step_count
    /\ step_count <= max_steps
    /\ Len(history) <= Len(executed)
    /\ \A i \in 1..Len(history) : EntryAction(history[i]) = executed[i]
    /\ pc \notin {"idle", "returned"} => Len(EventsOf("step_start")) = step_count
    /\ pc = "returned" =>
          /\ result.steps = step_count
          /\ result.steps <= max_steps
          /\ result.history = history
          /\ Len(EventsOf("step_start")) = result.steps
    /\ (pc = "returned" /\ caller.run = 1 /\ max_steps < MaxTotalSteps) =>
          ENABLED run_task_again

C17_RunStep ==
    (pc \in {"idle", "returned"} /\ pc' # pc) =>
        /\ pc' = "loop_head"
        /\ history' = << >>
        /\ step_count' = 0

C17_RunStartsEmpty == [] C17_RunState /\ [][C17_RunStep]_vars

\* the first run was interrupted after its only step; the second run reports
\* one step and one entry, its own
C17_Witness ==
    /\ caller.run = 2
    /\ caller.ended = "UserInterrupt"
    /\ Len(caller.history) = 1
    /\ caller.history[1].action = "SCROLL"
    /\ pc = "returned"
    /\ result.steps = 1
    /\ Len(result.history) = 1
    /\ result.history[1].action = "AWAKE"

(***************************************************************************)
(* C18.  Steps run strictly one after the other.  Within a step the order  *)
(* is capture, decision request, device action, history append; the        *)
(* capture of step n+1 starts only after the append of step n.             *)
(***************************************************************************)
StepEventTypes ==
    << "step_start", "screenshot", "llm_response", "action_execution", "step_complete" >>

StepEvents == SelectSeq(log, LAMBDA e : InSeq(StepEventTypes, e.event_type))

C18_OrderState ==
    /\ pc = "capturing" =>
          /\ Len(history) = step_count - 1
          /\ Len(EventsOf("step_complete")) = step_count - 1
    /\ pc \in {"annotating", "get_action", "deciding", "llm_backoff"} =>
          /\ captures = 1
          /\ device_attempts = 0
          /\ Len(executed) = step_count - 1
    /\ pc \in {"deciding", "llm_backoff"} => Len(EventsOf("screenshot")) = step_count
    /\ pc \in {"executing", "exec_backoff"} =>
          /\ oracle_calls >= 1
          /\ Len(EventsOf("llm_response")) = step_count
          /\ Len(executed) = step_count - 1
    /\ pc \in {"marking", "recording"} =>
          /\ Len(executed) = step_count
          /\ Len(history) = step_count - 1
    /\ pc \in {"check_complete", "delay"} => Len(history) = step_count
    /\ \A i \in 1..(Len(StepEvents) - 1) :
          LET a == StepEvents[i]
              b == StepEvents[i + 1]
          IN  \/ /\ b.step = a.step
                 /\ IndexOf(StepEventTypes, b.event_type)
                       = IndexOf(StepEventTypes, a.event_type) + 1
              \/ /\ b.step = a.step + 1
                 /\ a.event_type = "step_complete"
                 /\ b.event_type = "step_start"

C18_OrderStep ==
    /\ pc' = "capturing" =>
          /\ pc = "loop_head"
          /\ Len(history) = step_count
          /\ step_count' = step_count + 1
    /\ (pc = "capturing" /\ pc' # "finally") => pc' = "annotating"
    /\ (pc = "deciding" /\ pc' \notin {"finally", "llm_backoff"}) => pc' = "executing"
    /\ (pc = "executing" /\ pc' \notin {"finally", "exec_backoff"}) => pc' = "marking"
    /\ (pc = "recording" /\ pc' # "finally") =>
          (pc' = "check_complete" /\ Len(history') = step_count)

C18_StepsSequential == [] C18_OrderState /\ [][C18_OrderStep]_vars

\* the capture of the third step, after two appends
C18_Witness ==
    /\ pc = "capturing"
    /\ step_count = 3
    /\ Len(history) = 2
    /\ Len(StepEvents) = 11

(***************************************************************************)
(* C19.  As claimed: a decision whose CLICK grid label is invalid is never *)
(* passed to execution.                                                    *)
(***************************************************************************)
C19_InvalidLabelNeverExecuted ==
    (pc \in {"executing", "exec_backoff"} /\ action.action = "CLICK") =>
        grid_to_pixel_error(action.grid) = "ok"

(***************************************************************************)
(* C20.  A response with action SCROLL and a value other than "up" or      *)
(* "down" is rejected with InvalidScrollDirection; no such SCROLL is ever  *)
(* handed to execute_action.                                               *)
(***************************************************************************)
C20_ScrollState ==
    /\ (pc \in ActingPcs /\ action.action = "SCROLL") => action.value \in {"up", "down"}
    /\ \A i \in 1..Len(executed) :
          executed[i].action = "SCROLL" => executed[i].value \in {"up", "down"}
    /\ error.kind = "InvalidScrollDirection" =>
          /\ error.stage = "decide"
          /\ pc \in {"llm_backoff", "finally", "returned"}
          /\ device_attempts = 0
          /\ Len(executed) = step_count - 1

C20_ScrollStep ==
    /\ (pc = "deciding" /\ pc' = "executing") =>
          (action'.action = "SCROLL" => action'.value \in {"up", "down"})
    /\ (pc = "deciding" /\ error'.kind = "InvalidScrollDirection") =>
          /\ pc' \in {"llm_backoff", "finally"}
          /\ executed' = executed
          /\ device_attempts' = 0

C20_ScrollDirectionRejected == [] C20_ScrollState /\ [][C20_ScrollStep]_vars

\* the first response of the second step was a SCROLL "left"
C20_Witness ==
    /\ pc = "llm_backoff"
    /\ step_count = 2
    /\ llm_attempt = 0
    /\ error = Err("decide", "InvalidScrollDirection")

(***************************************************************************)
(* C21.  _parse_response raises MissingField exactly for a CLICK without   *)
(* `grid` and for a TYPE, SCROLL or AWAKE without `value`; a COMPLETE is    *)
(* accepted with neither field.                                            *)
(***************************************************************************)
LacksField(r) ==
    /\ r.json
    /\ "action" \in r.keys
    /\ \/ r.action = "CLICK" /\ "grid" \notin r.keys
       \/ r.action \in {"TYPE", "SCROLL", "AWAKE"} /\ "value" \notin r.keys

C21_MissingField ==
    call.fn = "_parse_response" =>
        LET r == call.args[1]
        IN  /\ call.ret.raised = "MissingField" <=> LacksField(r)
            /\ (r.json /\ "action" \in r.keys /\ r.action = "COMPLETE") =>
                  call.ret = Returned(ActionOf(r))

\* an AWAKE that has a grid but no value
C21_Witness ==
    /\ call.fn = "_parse_response"
    /\ call.args[1].action = "AWAKE"
    /\ call.args[1].keys = {"action", "grid", "explain"}
    /\ call.ret = Raised("MissingField")

(***************************************************************************)
(* C22.  Every action in execution and every history entry carries an      *)
(* action type of ACTION_TYPES; a response that is not JSON, has no action  *)
(* key or has an unknown action type is rejected, and nothing of it is      *)
(* executed or recorded.                                                   *)
(***************************************************************************)
TagErrors == {"MalformedResponse", "MissingAction", "UnknownActionType"}

HasActionType(a) == "action" \in a.keys /\ a.action \in ACTION_TYPES

C22_TagState ==
    /\ pc \in ActingPcs => HasActionType(action)
    /\ \A i \in 1..Len(executed) : HasActionType(executed[i])
    /\ \A i \in 1..Len(history) : HasActionType(history[i])
    /\ pc = "returned" => \A i \in 1..Len(result.history) : HasActionType(result.history[i])
    /\ error.kind \in TagErrors =>
          /\ error.stage = "decide"
          /\ pc \in {"llm_backoff", "finally", "returned"}
          /\ device_attempts = 0
          /\ Len(executed) = step_count - 1
          /\ Len(history) = step_count - 1

C22_TagStep ==
    (pc = "deciding" /\ error'.kind \in TagErrors) =>
        /\ pc' \in {"llm_backoff", "finally"}
        /\ executed' = executed
        /\ history' = history
        /\ device_attempts' = 0

C22_RecognizedActionType == [] C22_TagState /\ [][C22_TagStep]_vars

\* the second step ended the run on a third rejected response, an unknown type
C22_Witness ==
    /\ pc = "returned"
    /\ error = Err("decide", "UnknownActionType")
    /\ step_count = 2
    /\ Len(result.history) = 1

(***************************************************************************)
(* C23.  As claimed: a failure while the marked image of an executed       *)
(* action is drawn, saved or encoded never aborts the run, and the action   *)
(* is appended to the history.                                             *)
(***************************************************************************)
C23_MarkFailureNeverAborts ==
    /\ error.stage # "mark"
    /\ (pc = "returned" /\ outcome = "Error") => Len(result.history) = Len(executed)

(***************************************************************************)
(* The grid claims: the converter and the arguments of the call            *)
(***************************************************************************)
Called(fn) == call.fn = fn

\* the configuration of the converter that was called
Config == call.args[1]

\* the label argument of grid_to_pixel and get_cell_bounds
GridArg == call.args[2]

\* cells of at least 2 pixels in both directions
CellsAtLeastTwoPixels(config) ==
    /\ config.screen_width >= 2 * config.grid_cols
    /\ config.screen_height >= 2 * config.grid_rows

(***************************************************************************)
(* C24 as claimed.  On every grid, pixel_to_grid(grid_to_pixel(label)) is  *)
(* the label, for every label of the grid.                                 *)
(***************************************************************************)
C24_RoundTripEveryGrid ==
    (Called("grid_to_pixel") /\ GridArg \in Labels(Config)) =>
        /\ call.ret.raised = "none"
        /\ GridConverter_pixel_to_grid(Config, call.ret.value[1], call.ret.value[2])
              = Returned(GridArg)

(***************************************************************************)
(* C24 amended.  On every grid whose cells are at least 2 pixels wide and  *)
(* 2 pixels high, pixel_to_grid(grid_to_pixel(label)) is the label, for     *)
(* every label of the grid.                                                *)
(***************************************************************************)
C24_RoundTrip ==
    (Called("grid_to_pixel") /\ GridArg \in Labels(Config)
        /\ CellsAtLeastTwoPixels(Config)) =>
        /\ call.ret.raised = "none"
        /\ GridConverter_pixel_to_grid(Config, call.ret.value[1], call.ret.value[2])
              = Returned(GridArg)

\* a grid of 3 x 2 cells of 8/3 x 2 pixels and its last label
C24_Witness ==
    /\ Called("grid_to_pixel")
    /\ Config = GridConfig(3, 2, 8, 4)
    /\ GridArg = << "C", "2" >>
    /\ call.ret = Returned(<< 6, 3 >>)

\* column index and row of a label of the form Label(col_index, row)
ColIndexOf(label) == IndexOf(chr65, label[1]) - 1

RowOf(label) == digits_value(Tail(label))

(***************************************************************************)
(* C25 as claimed.  grid_to_pixel returns x = trunc((col_index + 0.5) * W  *)
(* / C) and y = trunc((row - 0.5) * H / R), the centre of the cell; on the  *)
(* default grid A1 = (54,60), E5 = (486,540), F10 = (594,1140) and J20 =     *)
(* (1026,2340).                                                            *)
(***************************************************************************)
C25_CentreOfCell ==
    /\ GridConverter_grid_to_pixel(DefaultGrid, << "A", "1" >>) = Returned(<< 54, 60 >>)
    /\ GridConverter_grid_to_pixel(DefaultGrid, << "E", "5" >>) = Returned(<< 486, 540 >>)
    /\ GridConverter_grid_to_pixel(DefaultGrid, << "F", "1", "0" >>)
          = Returned(<< 594, 1140 >>)
    /\ GridConverter_grid_to_pixel(DefaultGrid, << "J", "2", "0" >>)
          = Returned(<< 1026, 2340 >>)
    /\ (Called("grid_to_pixel") /\ GridArg \in Labels(Config)) =>
          call.ret =
            Returned(<< ((2 * ColIndexOf(GridArg) + 1) * Config.screen_width)
                          \div (2 * Config.grid_cols),
                        ((2 * RowOf(GridArg) - 1) * Config.screen_height)
                          \div (2 * Config.grid_rows) >>)

(***************************************************************************)
(* C26.  grid_to_pixel raises InvalidLabel, and returns no pixel, for a    *)
(* label whose column letter is not among the first C letters, whose row   *)
(* part is not a number or whose row is outside 1..R; it returns a pixel   *)
(* for every label with a column among the first C letters and a row in    *)
(* 1..R.                                                                   *)
(***************************************************************************)
ColumnInGrid(config, grid_str) ==
    /\ grid_str # << >>
    /\ InSeq(SubSeq(chr65, 1, config.grid_cols), grid_str[1])

RowIsNumber(grid_str) == Len(grid_str) >= 2 /\ int_ok(Tail(grid_str))

RowInGrid(config, grid_str) ==
    /\ RowIsNumber(grid_str)
    /\ int_value(Tail(grid_str)) \in 1..config.grid_rows

C26_InvalidLabel ==
    Called("grid_to_pixel") =>
        LET grid_str == upper(strip(GridArg))
            valid == /\ ColumnInGrid(Config, grid_str)
                     /\ RowIsNumber(grid_str)
                     /\ RowInGrid(Config, grid_str)
        IN  /\ valid => call.ret.raised = "none" /\ Len(call.ret.value) = 2
            /\ ~valid => call.ret = Raised("InvalidLabel")
            /\ GridArg \in Labels(Config) => valid
            /\ GridArg \in { << chr65[Config.grid_cols + 1], "1" >>, << "A", "0" >>,
                              << "A" >> \o str_int(Config.grid_rows + 1),
                              << "A", "x" >>, << "A" >>, << "1", "1" >> } => ~valid

\* the row after the last on the default grid
C26_Witness ==
    /\ Called("grid_to_pixel")
    /\ Config = DefaultGrid
    /\ GridArg = << "A", "2", "1" >>
    /\ call.ret = Raised("InvalidLabel")

(***************************************************************************)
(* C27.  For every label of the grid and every integer point strictly      *)
(* inside get_cell_bounds(label), pixel_to_grid returns that label.        *)
(***************************************************************************)
StrictlyInside(x, y, bounds) ==
    /\ bounds[1] < x /\ x < bounds[3]
    /\ bounds[2] < y /\ y < bounds[4]

C27_InsideBounds ==
    (Called("get_cell_bounds") /\ GridArg \in Labels(Config)) =>
        /\ call.ret.raised = "none"
        /\ \A x \in XPoints(Config), y \in YPoints(Config) :
              StrictlyInside(x, y, call.ret.value) =>
                  GridConverter_pixel_to_grid(Config, x, y) = Returned(GridArg)

\* the 1080 wide screen with 25 columns: x = 649 is one right of the left
\* edge of column P, x = 690 one left of its right edge
C27_Witness ==
    /\ Called("get_cell_bounds")
    /\ Config = GridConfig(25, 20, 1080, 2400)
    /\ GridArg = << "P", "2" >>
    /\ call.ret = Returned(<< 648, 120, 691, 240 >>)
    /\ {649, 690} \subseteq XPoints(Config)
    /\ {121, 239} \subseteq YPoints(Config)
    /\ GridConverter_pixel_to_grid(Config, 649, 121) = Returned(GridArg)

(***************************************************************************)
(* C28 as claimed.  pixel_to_grid never fails: it takes floor(x * C / W)   *)
(* and floor(y * R / H), clamps them into 0..C-1 and 0..R-1 and returns the *)
(* label of that cell, which for a point outside the screen is the nearest *)
(* edge cell.                                                              *)
(***************************************************************************)
clamp(v, lo, hi) == max(lo, min(v, hi))

C28_FloorAndClamp ==
    Called("pixel_to_grid") =>
        LET x == call.args[2]
            y == call.args[3]
        IN  /\ call.ret.raised = "none"
            /\ call.ret.value \in Labels(Config)
            /\ call.ret.value =
                  Label(clamp((x * Config.grid_cols) \div Config.screen_width,
                              0, Config.grid_cols - 1),
                        clamp((y * Config.grid_rows) \div Config.screen_height,
                              0, Config.grid_rows - 1) + 1)

(***************************************************************************)
(* C29 as claimed.  The rectangles of get_cell_bounds tile the screen: the *)
(* right edge of a cell is the left edge of the next column, the bottom    *)
(* edge is the top edge of the next row, the first column starts at 0, the *)
(* first row at 0, the last column ends at W and the last row at H.        *)
(***************************************************************************)
C29_BoundsTileScreen ==
    (Called("get_cell_bounds") /\ GridArg \in Labels(Config)) =>
        LET col_index == ColIndexOf(GridArg)
            row == RowOf(GridArg)
            bounds == call.ret.value
        IN  /\ call.ret.raised = "none"
            /\ bounds[1] <= bounds[3]
            /\ bounds[2] <= bounds[4]
            /\ col_index = 0 => bounds[1] = 0
            /\ row = 1 => bounds[2] = 0
            /\ col_index < Config.grid_cols - 1 =>
                  bounds[3] = GridConverter_get_cell_bounds(
                                  Config, Label(col_index + 1, row)).value[1]
            /\ row < Config.grid_rows =>
                  bounds[4] = GridConverter_get_cell_bounds(
                                  Config, Label(col_index, row + 1)).value[2]
            /\ col_index = Config.grid_cols - 1 => bounds[3] = Config.screen_width
            /\ row = Config.grid_rows => bounds[4] = Config.screen_height

(***************************************************************************)
(* C30 as claimed.  get_cell_bounds fails, and returns no rectangle, for   *)
(* every label that grid_to_pixel rejects.                                 *)
(***************************************************************************)
C30_SameValidation ==
    (Called("get_cell_bounds")
        /\ GridConverter_grid_to_pixel(Config, GridArg).raised = "InvalidLabel") =>
        call.ret.raised # "none"

(***************************************************************************)
(* C31 as claimed.  A label, its lower-case spelling and its spelling with *)
(* spaces around it give the same result of grid_to_pixel, and the label   *)
(* pixel_to_grid returns is one upper-case letter followed by the decimal  *)
(* row without a leading zero, on every grid the settings accept.          *)
(***************************************************************************)
\* "A" .. "Z"
upper_case_letters == SubSeq(chr65, 1, Len(lower_letters))

lower_char(c) ==
    IF InSeq(upper_case_letters, c)
    THEN lower_letters[IndexOf(upper_case_letters, c)] ELSE c

lower(s) == [i \in 1..Len(s) |-> lower_char(s[i])]

padded(s) == << " " >> \o s \o << " ", "\t" >>

C31_TolerantParsing ==
    Called("grid_to_pixel") =>
        /\ GridConverter_grid_to_pixel(Config, lower(GridArg)) = call.ret
        /\ GridConverter_grid_to_pixel(Config, padded(GridArg)) = call.ret
        /\ GridConverter_grid_to_pixel(Config, padded(lower(GridArg))) = call.ret

C31_CanonicalLabel ==
    Called("pixel_to_grid") =>
        LET label == call.ret.value
        IN  /\ call.ret.raised = "none"
            /\ Len(label) >= 2
            /\ InSeq(upper_case_letters, label[1])
            /\ all_digits(Tail(label))
            /\ label[2] # "0"

C31_TolerantAndCanonical == C31_TolerantParsing /\ C31_CanonicalLabel

(***************************************************************************)
(* C38 as claimed.  On every grid the settings accept, with the columns    *)
(* given in config.yaml or calculated from the screen, every column        *)
(* identifier of the converter and of the overlay is one of the letters A  *)
(* to Z, and so is the column of every label pixel_to_grid produces.       *)
(***************************************************************************)
AllLetters(identifiers) ==
    \A i \in 1..Len(identifiers) : InSeq(upper_case_letters, identifiers[i])

C38_ColumnsAreLetters ==
    /\ (Called("Settings") /\ call.ret.raised = "none") =>
          /\ Len(GridConverter_col_letters(call.ret.value)) = call.ret.value.grid_cols
          /\ AllLetters(GridConverter_col_letters(call.ret.value))
          /\ AllLetters(GridOverlay_col_letters(call.ret.value))
    /\ Called("pixel_to_grid") =>
          InSeq(upper_case_letters, call.ret.value[1])

(***************************************************************************)
(* C32 as claimed.  When run_task has returned, on whatever path, the      *)
(* history of the result has one entry for every action that was executed  *)
(* on the device, in the order of execution, also when an error or an      *)
(* interrupt came after the execution and before the append.               *)
(***************************************************************************)
C32_ExecutedActionsRecorded ==
    pc = "returned" =>
        /\ Len(executed) <= Len(result.history)
        /\ \A i \in 1..Len(executed) :
              i <= Len(result.history) => EntryAction(result.history[i]) = executed[i]

(***************************************************************************)
(* C33 as claimed.  When run_task has returned, on whatever path, the      *)
(* steps field of the result and the total_steps of the task_complete      *)
(* event are the number of completed steps, the length of the returned     *)
(* history; a step that was started and aborted is not counted.            *)
(***************************************************************************)
C33_StepsAreCompletedSteps ==
    pc = "returned" =>
        /\ result.steps = Len(result.history)
        /\ \A i \in 1..Len(log) :
              log[i].event_type = "task_complete" => log[i].step = Len(result.history)

(***************************************************************************)
(* C34.  As claimed: in every state of a run the history has at most       *)
(* step_count entries, step_count is at most one more than the length of   *)
(* the history, and step_count is at most max_steps.                       *)
(***************************************************************************)
C34_CounterBounds ==
    /\ Len(history) <= step_count
    /\ step_count <= Len(history) + 1
    /\ step_count <= max_steps
    /\ pc = "returned" =>
          /\ Len(result.history) <= result.steps
          /\ result.steps <= Len(result.history) + 1
          /\ result.steps <= max_steps

\* the last permitted step was started and failed: the counter is at
\* max_steps and one ahead of the history
C34_Witness ==
    /\ pc = "returned"
    /\ outcome = "Error"
    /\ max_steps = MaxSteps
    /\ step_count = max_steps
    /\ Len(history) = step_count - 1

(***************************************************************************)
(* C35.  As claimed: a run that has logged task_start logs task_complete   *)
(* exactly once, on every path on which it ends (Done, MaxStepsReached,     *)
(* Error, UserInterrupt), and task_complete is the last event of the run,   *)
(* after every step_start, llm_response, action_execution, step_complete   *)
(* and error event.                                                        *)
(***************************************************************************)
C35_LogState ==
    /\ pc # "propagated"
    /\ pc # "idle" =>
          /\ Len(EventsOf("task_start")) = 1
          /\ log[1].event_type = "task_start"
    /\ pc # "returned" => Len(EventsOf("task_complete")) = 0
    /\ outcome \in {"Done", "MaxStepsReached", "Error", "UserInterrupt"} => Terminated
    /\ pc = "finally" => ENABLED finally_return
    /\ pc = "returned" =>
          /\ outcome \in {"Done", "MaxStepsReached", "Error", "UserInterrupt"}
          /\ Len(EventsOf("task_complete")) = 1
          /\ log[Len(log)].event_type = "task_complete"

C35_LogStep ==
    /\ Len(log') >= Len(log)
    /\ SubSeq(log', 1, Len(log)) = log
    /\ pc = "finally" => pc' = "returned"

C36_CostState ==
    pc = "returned" =>
        /\ result.cost = tokens
        /\ result.steps = 0 => result.cost = 0

C36_CostStep ==
    (pc \in {"idle", "returned"} /\ pc' = "loop_head") => tokens' = 0

C36_CostOfThisRunOnly == [] C36_CostState /\ [][C36_CostStep]_vars

(***************************************************************************)
(* C37 as claimed.  main exits with status 0 exactly when run_task         *)
(* returned success = true, with status 130 when the user interrupted the  *)
(* task while it was running, and with status 1 in every other case.       *)
(***************************************************************************)
exit_status == call.args[1]

C37_ExitStatus ==
    (pc = "exited" /\ Called("sys.exit")) =>
        /\ exit_status = 0 <=> (result.returned /\ result.success)
        /\ outcome = "UserInterrupt" => exit_status = exit_interrupted
        /\ exit_status \notin {0, exit_interrupted} => exit_status = 1

====
